---- MODULE Spec2Model ----
(***************************************************************************)
(* Model of the WhatsApp current-account backend: the ledger arithmetic    *)
(* (AccountService), the period closer (MonthlyCloseJob), the identity     *)
(* binding and the conversation flow (ConversationFlow), with the store    *)
(* (Prisma) as the shared state.                                           *)
(*                                                                         *)
(* Timestamps are integers (days).  Amounts are signed integer cents.      *)
(***************************************************************************)
EXTENDS Integers, Sequences, FiniteSets, Bags, TLC

(***************************************************************************)
(* Bounds of the model.                                                    *)
(***************************************************************************)
MaxTx == 2
MaxTime == 2
MaxStatements == 2
\* Postings made between single closes.
MaxCloseTx == 1
\* Tickets opened in the conversations.
MaxTickets == 2

\* Length of a calendar month in the integer time of the model.
MonthLen == 2

\* A nullable value is <<>> (null / undefined) or <<v>>.
Null == <<>>
Some(v) == <<v>>
ValueOf(o) == o[1]

\* Employee ids; an account has the id of its employee (1:1).
Holders == {1, 2}
Accounts == Holders
Times == 0..MaxTime
Amounts == {-1, 2}
TransactionType == {"PANADERIA", "ADELANTO"}

VARIABLES
    transactions,     \* prisma.transaction rows
    now,              \* the wall clock read by new Date()
    lastClosingAt,    \* prisma.account.lastClosingAt, per account
    statements,       \* prisma.statement rows
    periodQuery,      \* the last getPeriodData call and what it returned
    bulk,             \* the closeAllAccounts call in progress, if any
    employee,         \* prisma.employee rows, by employee
    tickets,          \* prisma.ticket rows
    disputeAwaitingByPhone,  \* ConversationFlowTempState's map
    offered,          \* the confirm buttons sent so far: <<address, employee id>>
    lastOp,           \* the last operation on the directory or the chat
    inFlight,         \* the webhook requests being handled, by request
    account,          \* prisma.account rows
    importJob         \* the ImportJob.process call in progress, if any

ledgerVars == <<transactions, now, lastClosingAt, statements, periodQuery, bulk>>
chatVars ==
    <<employee, tickets, disputeAwaitingByPhone, offered, lastOp, inFlight>>
adminVars == <<account, importJob>>
vars == <<ledgerVars, chatVars, adminVars>>

(***************************************************************************)
(* Ledger engine: AccountService.                                          *)
(***************************************************************************)

\* Array.reduce((sum, t) => sum + t.amountCents, 0) and prisma's _sum.
RECURSIVE SumAmounts(_)
SumAmounts(S) ==
    IF S = {} THEN 0
    ELSE LET t == CHOOSE x \in S : TRUE
         IN t.amountCents + SumAmounts(S \ {t})

\* new Date(now.getFullYear(), now.getMonth(), 1)
FirstDayOfMonth(t) == t - (t % MonthLen)

\* A limit that leaves out the transactions posted at untilDate itself.
BalanceLimitExclusive(postedAt, untilDate) == postedAt < untilDate

\* The upper limit of computeBalance's where clause: postedAt <= untilDate.
BalanceLimit(postedAt, untilDate) == postedAt <= untilDate

\* AccountService.computeBalance: aggregate _sum over the account's
\* transactions with postedAt <= untilDate (all of them when untilDate is
\* omitted); "|| 0" turns the null sum of no rows into 0.
computeBalance(accountId, untilDate) ==
    SumAmounts({t \in transactions :
                  /\ t.accountId = accountId
                  /\ (untilDate # Null =>
                        BalanceLimit(t.postedAt, ValueOf(untilDate)))})

\* The findMany of getPeriodData: postedAt gte startDate and lte endDate.
PeriodTransactions(accountId, startDate, endDate) ==
    {t \in transactions :
        /\ t.accountId = accountId
        /\ t.postedAt >= startDate
        /\ t.postedAt <= endDate}

\* Totals with a key for every category, 0 where nothing was posted.
CategoryTotalsAllKeys(txs) ==
    [c \in TransactionType |-> SumAmounts({t \in txs : t.type = c})]

\* categoryTotals: only the categories that occur in the period get a key.
CategoryTotals(txs) ==
    [c \in {t.type : t \in txs} |-> SumAmounts({t \in txs : t.type = c})]

\* AccountService.getPeriodData
getPeriodData(accountId, startDate, endDate) ==
    LET txs == PeriodTransactions(accountId, startDate, endDate)
        openingBalance == computeBalance(accountId, Some(startDate))
    IN [start |-> startDate,
        end |-> endDate,
        transactions |-> txs,
        openingBalance |-> openingBalance,
        closingBalance |-> openingBalance + SumAmounts(txs),
        categoryTotals |-> CategoryTotals(txs)]

\* AccountService.getOpenPeriod
getOpenPeriod(last, today) ==
    IF last # Null
    THEN [start |-> ValueOf(last), end |-> today]
    ELSE [start |-> FirstDayOfMonth(today), end |-> today]

(***************************************************************************)
(* Operations on the ledger.                                               *)
(***************************************************************************)

\* A posting (TransactionService.createTransaction / import row).  Rows are
\* told apart by n, the number of the copy among equal postings.
PostTransaction(accountId, amountCents, postedAt, type) ==
    /\ Cardinality(transactions) < MaxTx
    /\ LET same == {t \in transactions :
                      /\ t.accountId = accountId
                      /\ t.amountCents = amountCents
                      /\ t.postedAt = postedAt
                      /\ t.type = type}
       IN transactions' = transactions \cup
            {[accountId |-> accountId, amountCents |-> amountCents,
              postedAt |-> postedAt, type |-> type,
              n |-> Cardinality(same) + 1]}
    /\ UNCHANGED <<now, lastClosingAt, statements, periodQuery, bulk>>
    /\ UNCHANGED <<chatVars, adminVars>>

\* A caller of getPeriodData with start <= end; the balance through the end
\* of the period is read by computeBalance in the same store state.
QueryPeriod(accountId, startDate, endDate) ==
    /\ startDate <= endDate
    /\ periodQuery' = Some([accountId |-> accountId,
                            data |-> getPeriodData(accountId, startDate, endDate),
                            balanceAtEnd |->
                                computeBalance(accountId, Some(endDate))])
    /\ UNCHANGED <<transactions, now, lastClosingAt, statements, bulk>>
    /\ UNCHANGED <<chatVars, adminVars>>

(***************************************************************************)
(* Period closer: MonthlyCloseJob and AccountService.closePeriod.          *)
(***************************************************************************)

\* The store and document calls of closeAccount, in the order the code makes
\* them; a close fails at one of them or at none.
CloseSteps == <<"findAccount", "getPeriodData", "createStatement",
                "generateStatementPDF", "updateStatement", "updateAccount">>
CloseFaults == {CloseSteps[i] : i \in DOMAIN CloseSteps}
NoFault == "none"

\* Position of a step in CloseSteps; NoFault comes after the last one.
StepIndex(step) ==
    IF step = NoFault THEN Len(CloseSteps) + 1
    ELSE CHOOSE i \in DOMAIN CloseSteps : CloseSteps[i] = step

\* TRUE when the call named step ran to its end in a close failing at fault.
Completed(step, fault) == StepIndex(step) < StepIndex(fault)

\* The error a failing store or document call throws; closeAccount logs it
\* and rethrows it unchanged.  It carries the failing call, no account id.
StoreError(step) == [message |-> step]

\* A store that keeps one statement per account and period.
NewStatementDeduplicated(accountId, periodData, pdfUrl) ==
    [accountId |-> accountId,
     periodStart |-> periodData.start,
     periodEnd |-> periodData.end,
     closingBalanceCents |-> periodData.closingBalance,
     pdfUrl |-> pdfUrl,
     n |-> 1]

\* The row written by prisma.statement.create; n tells equal rows apart.
NewStatement(accountId, periodData, pdfUrl) ==
    LET same == {s \in statements :
                    /\ s.accountId = accountId
                    /\ s.periodStart = periodData.start
                    /\ s.periodEnd = periodData.end}
    IN [accountId |-> accountId,
        periodStart |-> periodData.start,
        periodEnd |-> periodData.end,
        closingBalanceCents |-> periodData.closingBalance,
        pdfUrl |-> pdfUrl,
        n |-> Cardinality(same) + 1]

\* The period closeAccount and closePeriod close: from the start of the open
\* period through closingDate.
ClosingPeriodData(accountId, closingDate) ==
    getPeriodData(accountId,
                  getOpenPeriod(lastClosingAt[accountId], now).start,
                  closingDate)

\* The statements after closeAccount(accountId, closingDate) failing at fault:
\* the row exists once createStatement has run, and has its pdfUrl once
\* generateStatementPDF (which writes it itself) has run.
StatementsAfterClose(accountId, closingDate, fault) ==
    IF Completed("createStatement", fault)
    THEN statements \cup
           {NewStatement(accountId, ClosingPeriodData(accountId, closingDate),
                         IF Completed("generateStatementPDF", fault)
                         THEN Some("pdf") ELSE Null)}
    ELSE statements

\* A close that advances lastClosingAt before it writes the statement.
LastClosingWrittenFirst(accountId, closingDate, fault) ==
    [lastClosingAt EXCEPT ![accountId] = Some(closingDate)]

\* account.lastClosingAt after the same call.
LastClosingAfterClose(accountId, closingDate, fault) ==
    IF Completed("updateAccount", fault)
    THEN [lastClosingAt EXCEPT ![accountId] = Some(closingDate)]
    ELSE lastClosingAt

\* MonthlyCloseJob.closeAccount: what it writes to the store.
closeAccount(accountId, closingDate, fault) ==
    /\ Completed("createStatement", fault) =>
          Cardinality(statements) < MaxStatements
    /\ statements' = StatementsAfterClose(accountId, closingDate, fault)
    /\ lastClosingAt' = LastClosingAfterClose(accountId, closingDate, fault)

\* MonthlyCloseJob.process with an accountId: one close, whose error (if any)
\* is rethrown to the queue.
CloseAccountJob(accountId, closingDate, fault) ==
    /\ closeAccount(accountId, closingDate, fault)
    /\ UNCHANGED <<transactions, now, periodQuery, bulk>>
    /\ UNCHANGED <<chatVars, adminVars>>

\* AccountService.closePeriod: the same close without a document.
ClosePeriod(accountId, closingDate, fault) ==
    /\ fault # "generateStatementPDF"
    /\ Completed("createStatement", fault) =>
          Cardinality(statements) < MaxStatements
    /\ statements' =
          IF Completed("createStatement", fault)
          THEN statements \cup
                 {NewStatement(accountId,
                               ClosingPeriodData(accountId, closingDate), Null)}
          ELSE statements
    /\ lastClosingAt' = LastClosingAfterClose(accountId, closingDate, fault)
    /\ UNCHANGED <<transactions, now, periodQuery, bulk>>
    /\ UNCHANGED <<chatVars, adminVars>>

\* Time passes.
Tick ==
    /\ now < MaxTime
    /\ now' = now + 1
    /\ UNCHANGED <<transactions, lastClosingAt, statements, periodQuery, bulk>>
    /\ UNCHANGED <<chatVars, adminVars>>

Idle == [pc |-> "idle"]

\* closeAllAccounts, first part: prisma.account.findMany, then one
\* closeAccount promise per account under Promise.allSettled.  A failing
\* findMany is rethrown to the caller.
StartCloseAll(closingDate, fault) ==
    /\ bulk.pc \in {"idle", "done", "threw"}
    /\ bulk' = IF fault
               THEN [pc |-> "threw"]
               ELSE [pc |-> "running",
                     closingDate |-> closingDate,
                     accounts |-> lastClosingAt,
                     results |-> [a \in Accounts |-> [status |-> "pending"]]]
    /\ UNCHANGED <<transactions, now, lastClosingAt, statements, periodQuery>>
    /\ UNCHANGED <<chatVars, adminVars>>

\* One of the closeAccount promises settles: fulfilled, or rejected with the
\* error it threw.  The promises settle in any order.
CloseAllStep(accountId, fault) ==
    /\ bulk.pc = "running"
    /\ bulk.results[accountId].status = "pending"
    /\ closeAccount(accountId, bulk.closingDate, fault)
    /\ bulk' = [bulk EXCEPT !.results[accountId] =
                   IF fault = NoFault
                   THEN [status |-> "fulfilled"]
                   ELSE [status |-> "rejected", reason |-> StoreError(fault)]]
    /\ UNCHANGED <<transactions, now, periodQuery>>
    /\ UNCHANGED <<chatVars, adminVars>>

\* results.filter(...).map(r => r.reason), in the order of the accounts.
RECURSIVE Reasons(_, _)
Reasons(results, k) ==
    IF k \notin Accounts THEN <<>>
    ELSE (IF results[k].status = "rejected" THEN <<results[k].reason>> ELSE <<>>)
         \o Reasons(results, k + 1)

\* closeAllAccounts, second part: allSettled has resolved; the tally is
\* logged and the call returns without throwing.
FinishCloseAll ==
    /\ bulk.pc = "running"
    /\ \A a \in Accounts : bulk.results[a].status # "pending"
    /\ bulk' = [pc |-> "done",
                closingDate |-> bulk.closingDate,
                accounts |-> bulk.accounts,
                results |-> bulk.results,
                successful |-> Cardinality({a \in Accounts :
                                  bulk.results[a].status = "fulfilled"}),
                failed |-> Cardinality({a \in Accounts :
                                  bulk.results[a].status = "rejected"}),
                errors |-> Reasons(bulk.results, 1)]
    /\ UNCHANGED <<transactions, now, lastClosingAt, statements, periodQuery>>
    /\ UNCHANGED <<chatVars, adminVars>>

(***************************************************************************)
(* Strings.  A string is the sequence of its characters, so that the       *)
(* parsing the code does (startsWith, split, trim, a regular expression,   *)
(* toLowerCase, includes, replace) is computed and not assumed.            *)
(***************************************************************************)
UPPER == <<"A", "B", "C", "D", "E", "F", "G", "H", "I", "J", "K", "L", "M", "N", "O", "P", "Q", "R", "S", "T", "U", "V", "W", "X", "Y", "Z">>
LOWER == <<"a", "b", "c", "d", "e", "f", "g", "h", "i", "j", "k", "l", "m", "n", "o", "p", "q", "r", "s", "t", "u", "v", "w", "x", "y", "z">>
Digits == {"0", "1", "2", "3", "4", "5", "6", "7", "8", "9"}

\* String.prototype.startsWith
startsWith(s, prefix) ==
    /\ Len(s) >= Len(prefix)
    /\ SubSeq(s, 1, Len(prefix)) = prefix

\* String.prototype.includes
includes(s, part) ==
    \E i \in 0..(Len(s) - Len(part)) : SubSeq(s, i + 1, i + Len(part)) = part

\* The lower-case letter of every upper-case one.
LowerOf ==
    [c \in {UPPER[k] : k \in DOMAIN UPPER} |->
        LOWER[CHOOSE k \in DOMAIN UPPER : UPPER[k] = c]]

\* String.prototype.toLowerCase
toLowerCase(s) ==
    IF s = <<>> THEN <<>>
    ELSE [i \in 1..Len(s) |->
            IF s[i] \in DOMAIN LowerOf THEN LowerOf[s[i]] ELSE s[i]]

\* String.prototype.trim
trim(s) ==
    LET inked == {i \in DOMAIN s : s[i] # " "}
    IN IF inked = {} THEN <<>>
       ELSE SubSeq(s, CHOOSE i \in inked : \A j \in inked : i <= j,
                      CHOOSE i \in inked : \A j \in inked : j <= i)

\* messageText.split(':')[1]: the text between the first colon and the next
\* one (or the end); undefined, here the empty string, without a colon.
splitColonSecond(s) ==
    LET colons == {i \in DOMAIN s : s[i] = ":"}
    IN IF colons = {} THEN <<>>
       ELSE LET first == CHOOSE i \in colons : \A j \in colons : i <= j
                later == {i \in colons : i > first}
                last == IF later = {} THEN Len(s)
                        ELSE (CHOOSE i \in later : \A j \in later : i <= j) - 1
            IN SubSeq(s, first + 1, last)

\* A flow that looks up whatever text it is sent.
AnyTextIsDni(dni) == TRUE

\* /^\d{7,8}$/.test(dni)
IsDni(dni) ==
    /\ Len(dni) \in 7..8
    /\ \A i \in DOMAIN dni : dni[i] \in Digits

(***************************************************************************)
(* The directory: prisma.employee, and the operations that write it.       *)
(***************************************************************************)

\* The employee a CSV import can add to the seeded ones.
EmployeeIds == Holders \cup {3}

\* employee.id and employee.employeeCode, fixed when the row is created.
IdOf(h) == <<"e", <<"1", "2", "3">>[h]>>
CodeOf(h) == <<"E", "0", "0", <<"1", "2", "3">>[h]>>

DNI_1 == <<"2", "0", "3", "0", "0", "1", "2", "3">>
DNI_2 == <<"2", "7", "1", "1", "1", "2", "2", "2">>
DNI_3 == <<"1", "2", "3", "4", "5", "6", "7", "8">>
SeedDni == <<DNI_1, DNI_2, DNI_3>>

\* Subscriber lines, and the forms in which the number of a line is written:
\* E.164 with the plus sign (the seed, the importer), the digits alone (the
\* wa_id of the channel), and the shorter forms a CSV row may hold.
Lines == {<<"1", "1">>, <<"1", "5">>}
PlusForm(line) == <<"+", "5", "4", "9">> \o line
WaForm(line) == <<"5", "4", "9">> \o line
NineForm(line) == <<"9">> \o line
LocalForm(line) == <<"(">> \o line \o <<")">>
SpacedForm(line) == <<"+", "5", "4", "9", " ">> \o line
\* The phoneE164 of the seeded employees.
SeedPhone(h) == PlusForm(<<<<"1", "1">>, <<"1", "5">>>>[h])

\* The addresses inbound events come from.
WaIds == {WaForm(l) : l \in Lines}

\* ImportJob.normalizePhoneNumber
normalizePhoneNumber(phone) ==
    LET normalized == SelectSeq(phone, LAMBDA c : c \notin {" ", "-", "(", ")"})
    IN IF startsWith(normalized, <<"+">>) THEN normalized
       ELSE IF startsWith(normalized, <<"5", "4">>) THEN <<"+">> \o normalized
       ELSE IF startsWith(normalized, <<"9">>) THEN <<"+", "5", "4">> \o normalized
       ELSE <<"+", "5", "4", "9">> \o normalized

\* prisma.employee.findUnique({ where: { phoneE164 } })
findByPhone(phoneE164) ==
    {h \in DOMAIN employee : employee[h].phoneE164 = Some(phoneE164)}
\* prisma.employee.findUnique({ where: { id } })
findById(id) == {h \in DOMAIN employee : IdOf(h) = id}
\* prisma.employee.findUnique({ where: { dni } })
findByDni(dni) == {h \in DOMAIN employee : employee[h].dni = dni}
\* EmployeeService.getEmployeeByCode
getEmployeeByCode(employeeCode) ==
    {h \in DOMAIN employee : CodeOf(h) = employeeCode}

\* A store without the unique indexes.
NoUniqueIndex(h, data) == FALSE

\* The unique indexes on dni and phoneE164: a write that would give the row
\* of h a value another row holds is rejected by the store.
UniqueViolation(h, data) ==
    \E o \in DOMAIN employee \ {h} :
        \/ employee[o].dni = data.dni
        \/ /\ data.phoneE164 # Null
           /\ employee[o].phoneE164 = data.phoneE164

\* The rows after prisma.employee.update / create of the row of h.
WriteEmployee(h, data) ==
    [o \in DOMAIN employee \cup {h} |-> IF o = h THEN data ELSE employee[o]]

\* prisma.account.findUnique({ where: { employeeId } }); an account has the
\* number of its employee.
findAccount(employeeId) ==
    {h \in EmployeeIds :
        IdOf(h) = employeeId /\ \E r \in account : r.employeeId = employeeId}

\* The store writes of createEmployee that can fail.
CreateFaults == {"createEmployee", "createAccount"}

\* EmployeeService.createEmployee: prisma.employee.create, then
\* prisma.account.create with closing day 20; an error of either write is
\* logged and rethrown.
createEmployee(h, data, fault) ==
    IF fault = "createEmployee" \/ h \in DOMAIN employee
       \/ UniqueViolation(h, data)
    THEN [employee |-> employee, account |-> account, threw |-> TRUE]
    ELSE IF fault = "createAccount" \/ findAccount(IdOf(h)) # {}
    THEN [employee |-> WriteEmployee(h, data), account |-> account,
          threw |-> TRUE]
    ELSE [employee |-> WriteEmployee(h, data),
          account |-> account \cup {[employeeId |-> IdOf(h), closingDay |-> 20]},
          threw |-> FALSE]

\* One pass of the loop of ImportJob.processEmployeeBatch: the row is
\* skipped when a field is missing, updates the employee with its code, or
\* creates one; an error of the store fails the row alone.
processEmployeeRow(row, fault) ==
    IF row.employeeCode = <<>> \/ row.fullName = <<>>
       \/ row.dni = <<>> \/ row.phoneE164 = <<>>
    THEN [employee |-> employee, account |-> account, outcome |-> "missing",
          target |-> {}, phoneE164 |-> <<>>]
    ELSE LET phoneE164 == normalizePhoneNumber(row.phoneE164)
             existing == getEmployeeByCode(row.employeeCode)
             target == IF existing # {} THEN existing
                       ELSE {h \in EmployeeIds : CodeOf(h) = row.employeeCode}
             h == CHOOSE x \in target : TRUE
             data == [dni |-> row.dni, phoneE164 |-> Some(phoneE164)]
             created == createEmployee(h, data, fault)
         IN IF existing # {}
            THEN IF UniqueViolation(h, data)
                 THEN [employee |-> employee, account |-> account,
                       outcome |-> "failed", target |-> target,
                       phoneE164 |-> phoneE164]
                 ELSE [employee |-> WriteEmployee(h, data),
                       account |-> account, outcome |-> "updated",
                       target |-> target, phoneE164 |-> phoneE164]
            ELSE [employee |-> created.employee, account |-> created.account,
                  outcome |-> IF created.threw THEN "failed" ELSE "created",
                  target |-> target, phoneE164 |-> phoneE164]

\* A CSV row imported on its own, the store answering every write.
ImportEmployeeRow(row) ==
    LET r == processEmployeeRow(row, NoFault)
    IN /\ employee' = r.employee
       /\ account' = r.account
       /\ lastOp' = [op |-> "import", target |-> r.target,
                     outcome |-> r.outcome, phoneE164 |-> r.phoneE164]
       /\ UNCHANGED <<tickets, disputeAwaitingByPhone, offered, inFlight>>
       /\ UNCHANGED <<ledgerVars, importJob>>

\* EmployeeService.updateEmployee(id, { phoneE164 }): the update is rejected
\* (and rethrown) when the employee does not exist or an index is violated.
UpdateEmployee(h, phoneE164) ==
    LET data == [dni |-> employee[h].dni, phoneE164 |-> Some(phoneE164)]
        ok == h \in DOMAIN employee /\ ~UniqueViolation(h, data)
    IN /\ employee' = IF ok THEN WriteEmployee(h, data) ELSE employee
       /\ lastOp' = [op |-> "update", target |-> {h},
                     outcome |-> IF ok THEN "updated" ELSE "failed",
                     phoneE164 |-> phoneE164]
       /\ UNCHANGED <<tickets, disputeAwaitingByPhone, offered, inFlight>>
       /\ UNCHANGED <<ledgerVars, adminVars>>

(***************************************************************************)
(* Bulk import: ImportJob.  The stream hands the rows of the file to the   *)
(* 'data' handler one by one and then fires 'end'; it does not wait for    *)
(* the promise a handler returns, so the batch runs the handlers start     *)
(* proceed, one store call at a time, next to later events and to each     *)
(* other, all on the same batch array and the same result object.          *)
(***************************************************************************)
MaxImports == 2

\* The number a decimal digit and a run of digits denote.
DigitValue(c) ==
    CHOOSE n \in 0..9 :
        <<"0", "1", "2", "3", "4", "5", "6", "7", "8", "9">>[n + 1] = c
RECURSIVE DigitsValue(_)
DigitsValue(s) ==
    IF s = <<>> THEN 0
    ELSE 10 * DigitsValue(SubSeq(s, 1, Len(s) - 1)) + DigitValue(s[Len(s)])

\* Math.round(parseFloat(row.amountARS) * 100) of a decimal numeral with at
\* most three fraction digits; Math.round takes a half towards +infinity.
amountCentsOf(amountARS) ==
    LET negative == startsWith(amountARS, <<"-">>)
        unsigned == IF negative THEN Tail(amountARS) ELSE amountARS
        dots == {i \in DOMAIN unsigned : unsigned[i] = "."}
        dot == IF dots = {} THEN Len(unsigned) + 1
               ELSE CHOOSE i \in dots : \A j \in dots : i <= j
        whole == SubSeq(unsigned, 1, dot - 1)
        frac == SubSeq(unsigned, dot + 1, Len(unsigned))
        digit(i) == IF i <= Len(frac) THEN DigitValue(frac[i]) ELSE 0
        hundredths == DigitsValue(whole) * 100 + digit(1) * 10 + digit(2)
    IN IF negative
       THEN -(hundredths + (IF digit(3) > 5 THEN 1 ELSE 0))
       ELSE hundredths + (IF digit(3) >= 5 THEN 1 ELSE 0)

\* The result object of an import before the first row.
ZeroResult ==
    [totalRows |-> 0, successfulRows |-> 0, failedRows |-> 0, errors |-> <<>>]

\* The check for required fields at the head of the loop body of
\* processEmployeeBatch and of processTransactionBatch.
MissingFields(fileType, row) ==
    IF fileType = "employees"
    THEN row.employeeCode = <<>> \/ row.fullName = <<>>
         \/ row.dni = <<>> \/ row.phoneE164 = <<>>
    ELSE row.employeeCode = <<>> \/ row.postedAt = <<>> \/ row.type = ""
         \/ row.description = <<>> \/ row.amountARS = <<>>

\* for (const row of batch), from position k up to the first store call:
\* the rows that miss a field are counted as failed on the way.  The loop
\* is over when k is past the end of the array as it is by then.
RECURSIVE processBatch(_, _, _, _)
processBatch(fileType, batch, k, result) ==
    IF k > Len(batch)
    THEN [k |-> k, row |-> Null, result |-> result]
    ELSE IF MissingFields(fileType, batch[k].row)
    THEN processBatch(fileType, batch, k + 1,
             [result EXCEPT !.failedRows = @ + 1,
                            !.errors = Append(@, <<batch[k].line, "missing">>)])
    ELSE [k |-> k, row |-> Some(batch[k]), result |-> result]

\* The rest of the loop body of processTransactionBatch for a row with all
\* its fields: TransactionService.createTransaction adds a row whatever the
\* store holds.
processTransactionRow(row, fault) ==
    LET found == getEmployeeByCode(row.employeeCode)
        h == CHOOSE x \in found : TRUE
        accountId == CHOOSE x \in findAccount(IdOf(h)) : TRUE
        amountCents == amountCentsOf(row.amountARS)
        postedAt == DigitsValue(row.postedAt)
        same == {t \in transactions :
                   /\ t.accountId = accountId
                   /\ t.amountCents = amountCents
                   /\ t.postedAt = postedAt
                   /\ t.type = row.type}
    IN IF found = {}
       THEN [transactions |-> transactions, outcome |-> "Employee not found"]
       ELSE IF findAccount(IdOf(h)) = {}
       THEN [transactions |-> transactions, outcome |-> "Account not found"]
       ELSE IF row.type \notin TransactionType
       THEN [transactions |-> transactions, outcome |-> "Invalid type"]
       ELSE IF fault = "createTransaction"
       THEN [transactions |-> transactions, outcome |-> "failed"]
       ELSE [transactions |-> transactions \cup
                {[accountId |-> accountId, amountCents |-> amountCents,
                  postedAt |-> postedAt, type |-> row.type,
                  n |-> Cardinality(same) + 1]},
             outcome |-> "created"]

\* No import has run yet.
NoImport ==
    [pc |-> "idle", fileType |-> "none", file |-> <<>>, next |-> 1,
     batchSize |-> 0, batch |-> <<>>, result |-> ZeroResult,
     runs |-> EmptyBag, returned |-> Null, done |-> <<>>, imports |-> 0,
     storeAtStart |-> {}]

\* The faults of the store calls of a row.
RowFaults == CreateFaults \cup {"createTransaction"}

\* ImportJob.process: importEmployees / importTransactions open the file
\* with an empty batch and a zero result; another file type is rejected.
\* A job is taken when the runs of the one before are over.
StartImport(fileType, file, batchSize) ==
    /\ importJob.pc \in {"idle", "resolved", "rejected"}
    /\ importJob.runs = EmptyBag
    /\ importJob.imports < MaxImports
    /\ importJob' =
          [pc |-> IF fileType \in {"employees", "transactions"}
                  THEN "reading" ELSE "rejected",
           fileType |-> fileType, file |-> file, next |-> 1,
           batchSize |-> batchSize, batch |-> <<>>, result |-> ZeroResult,
           runs |-> EmptyBag, returned |-> Null,
           done |-> [i \in DOMAIN file |-> 0],
           imports |-> importJob.imports + 1,
           storeAtStart |-> transactions]
    /\ UNCHANGED <<ledgerVars, chatVars, account>>

\* .on('data'): count the row, push it, and with a full batch call
\* processEmployeeBatch / processTransactionBatch, which runs up to its
\* first store call before the handler yields.
ImportData ==
    /\ importJob.pc = "reading"
    /\ importJob.next <= Len(importJob.file)
    /\ LET line == importJob.next
           batch == Append(importJob.batch,
                           [line |-> line, row |-> importJob.file[line]])
           result == [importJob.result EXCEPT !.totalRows = @ + 1]
           run == processBatch(importJob.fileType, batch, 1, result)
       IN importJob' =
            IF Len(batch) >= importJob.batchSize
            THEN [importJob EXCEPT
                    !.next = line + 1, !.batch = batch,
                    !.result = run.result,
                    !.runs = @ (+) SetToBag({[from |-> "data", k |-> run.k,
                                              row |-> run.row]})]
            ELSE [importJob EXCEPT
                    !.next = line + 1, !.batch = batch, !.result = result]
    /\ UNCHANGED <<ledgerVars, chatVars, account>>

\* .on('end'): a last batch run when the array is not empty, else
\* resolve(result) on the spot.
ImportEnd ==
    /\ importJob.pc = "reading"
    /\ importJob.next > Len(importJob.file)
    /\ LET run == processBatch(importJob.fileType, importJob.batch, 1,
                               importJob.result)
       IN importJob' =
            IF Len(importJob.batch) > 0
            THEN [importJob EXCEPT
                    !.pc = "ended", !.result = run.result,
                    !.runs = @ (+) SetToBag({[from |-> "end", k |-> run.k,
                                              row |-> run.row]})]
            ELSE [importJob EXCEPT
                    !.pc = "resolved", !.returned = Some(importJob.result)]
    /\ UNCHANGED <<ledgerVars, chatVars, account>>

\* A batch run resumes after the store calls of its row: the row counts as
\* successful or failed, and the loop goes on to the next store call, in
\* the array as it is now.
ImportRow(run, fault) ==
    /\ BagIn(run, importJob.runs)
    /\ run.row # Null
    /\ LET line == ValueOf(run.row).line
           row == ValueOf(run.row).row
           e == processEmployeeRow(row, fault)
           t == processTransactionRow(row, fault)
           ok == IF importJob.fileType = "employees"
                 THEN e.outcome \in {"created", "updated"}
                 ELSE t.outcome = "created"
           outcome == IF importJob.fileType = "employees" THEN e.outcome
                      ELSE t.outcome
           counted == IF ok
                      THEN [importJob.result EXCEPT !.successfulRows = @ + 1]
                      ELSE [importJob.result EXCEPT
                              !.failedRows = @ + 1,
                              !.errors = Append(@, <<line, outcome>>)]
           rest == processBatch(importJob.fileType, importJob.batch,
                                run.k + 1, counted)
       IN /\ IF importJob.fileType = "employees"
             THEN /\ employee' = e.employee
                  /\ account' = e.account
                  /\ UNCHANGED transactions
             ELSE /\ transactions' = t.transactions
                  /\ UNCHANGED <<employee, account>>
          /\ importJob' =
                [importJob EXCEPT
                   !.result = rest.result,
                   !.done[line] = @ + 1,
                   !.runs = (@ (-) SetToBag({run}))
                               (+) SetToBag({[from |-> run.from, k |-> rest.k,
                                              row |-> rest.row]})]
    /\ UNCHANGED <<now, lastClosingAt, statements, periodQuery, bulk>>
    /\ UNCHANGED <<tickets, disputeAwaitingByPhone, offered, lastOp, inFlight>>

\* A batch run returns to the handler that awaited it: the 'data' handler
\* empties the array (batch.length = 0), the 'end' handler resolves the
\* promise of the import with the result as it is then.
ImportBatchDone(run) ==
    /\ BagIn(run, importJob.runs)
    /\ run.row = Null
    /\ importJob' =
          IF run.from = "data"
          THEN [importJob EXCEPT !.batch = <<>>,
                                 !.runs = @ (-) SetToBag({run})]
          ELSE [importJob EXCEPT !.pc = "resolved",
                                 !.returned = Some(importJob.result),
                                 !.runs = @ (-) SetToBag({run})]
    /\ UNCHANGED <<ledgerVars, chatVars, account>>

(***************************************************************************)
(* The conversation flow: ConversationFlow.handleMessage and the handlers  *)
(* it dispatches to.  A handler is an operator from the store to its       *)
(* effects: the messages it hands to the WhatsApp client, in order (a send *)
(* never throws: the client returns false), the rows it leaves, the call   *)
(* that failed if one did, and whether the error left the handler.         *)
(***************************************************************************)
CONFIRM_YES_PREFIX == <<"C", "O", "N", "F", "I", "R", "M", "_", "Y", "E", "S", ":">>
CONFIRM_NO == <<"C", "O", "N", "F", "I", "R", "M", "_", "N", "O">>
MENU_SUMMARY == <<"M", "E", "N", "U", "_", "S", "U", "M", "M", "A", "R", "Y">>
MENU_DETAIL == <<"M", "E", "N", "U", "_", "D", "E", "T", "A", "I", "L">>
MENU_DISPUTE == <<"M", "E", "N", "U", "_", "D", "I", "S", "P", "U", "T", "E">>
MENU_HANDOVER == <<"M", "E", "N", "U", "_", "H", "A", "N", "D", "O", "V", "E", "R">>
CAT_PANADERIA == <<"C", "A", "T", "_", "P", "A", "N", "A", "D", "E", "R", "I", "A">>
CAT_CARNICERIA == <<"C", "A", "T", "_", "C", "A", "R", "N", "I", "C", "E", "R", "I", "A">>
CAT_PROVEEDORES == <<"C", "A", "T", "_", "P", "R", "O", "V", "E", "E", "D", "O", "R", "E", "S">>
CAT_ADELANTO == <<"C", "A", "T", "_", "A", "D", "E", "L", "A", "N", "T", "O">>
KW_RESUMEN == <<"r", "e", "s", "u", "m", "e", "n">>
KW_DETALLE == <<"d", "e", "t", "a", "l", "l", "e">>
KW_DISPUTAR == <<"d", "i", "s", "p", "u", "t", "a", "r">>
KW_HABLAR == <<"h", "a", "b", "l", "a", "r">>
KW_PANADER == <<"p", "a", "n", "a", "d", "e", "r">>
KW_CARNICER == <<"c", "a", "r", "n", "i", "c", "e", "r">>
KW_PROVEEDOR == <<"p", "r", "o", "v", "e", "e", "d", "o", "r">>
KW_ADELANTO == <<"a", "d", "e", "l", "a", "n", "t", "o">>

\* WhatsAppClient.sendText / sendButtons / sendList: copy names the entry of
\* WHATSAPP_COPYS, args what replaces its placeholders, ids the reply ids.
sendText(to, copy, args) ==
    [to |-> to, kind |-> "text", copy |-> copy, args |-> args, ids |-> <<>>]
sendButtons(to, copy, args, ids) ==
    [to |-> to, kind |-> "buttons", copy |-> copy, args |-> args, ids |-> ids]
sendList(to, copy, ids) ==
    [to |-> to, kind |-> "list", copy |-> copy, args |-> <<>>, ids |-> ids]

\* WhatsAppClient.sanitizeButtons: the reply ids that go out to the
\* transport, buttons.slice(0, MAX_BUTTONS).
MAX_BUTTONS == 3
sanitizeButtons(ids) ==
    SubSeq(ids, 1, IF Len(ids) > MAX_BUTTONS THEN MAX_BUTTONS ELSE Len(ids))

Effects(sent, fault, threw) ==
    [sent |-> sent, employee |-> employee, tickets |-> tickets,
     pending |-> disputeAwaitingByPhone, offered |-> offered,
     fault |-> fault, threw |-> threw]
\* The handler returns after these sends.
Replies(sent) == Effects(sent, NoFault, FALSE)
\* The handler's own catch block logs the error of call and sends.
Caught(call, sent) == Effects(sent, call, FALSE)
\* An error of call that is dropped where it happens, with no answer.
ThrownUnanswered(call) == Effects(<<>>, call, FALSE)
\* The error of call leaves the handler.
Thrown(call) == Effects(<<>>, call, TRUE)

\* The store calls of the flow that can fail.
ChatFaults == {"findEmployeeByPhone", "findEmployeeById", "findEmployeeByDni",
               "updateEmployee", "findAccount", "findTransactions",
               "createTicket"}

\* A flow that keeps a session: an address with a dispute pending is
\* dispatched to the dispute handler.
StateFromSession(phoneNumber) ==
    LET found == findByPhone(phoneNumber)
    IN IF disputeAwaitingByPhone[phoneNumber] # Null
       THEN [state |-> "DISPUTE_CHARGE",
             data |-> disputeAwaitingByPhone[phoneNumber]]
       ELSE IF found # {}
       THEN [state |-> "MAIN_MENU",
             data |-> Some(IdOf(CHOOSE h \in found : TRUE))]
       ELSE [state |-> "NEW_OR_UNIDENTIFIED", data |-> Null]

\* A flow that takes every address for the first holder.
StateOfFirstHolder(phoneNumber) ==
    [state |-> "MAIN_MENU", data |-> Some(IdOf(1))]

\* ConversationFlow.getOrCreateConversationState
getOrCreateConversationState(phoneNumber) ==
    LET found == findByPhone(phoneNumber)
    IN IF found # {}
       THEN [state |-> "MAIN_MENU",
             data |-> Some(IdOf(CHOOSE h \in found : TRUE))]
       ELSE [state |-> "NEW_OR_UNIDENTIFIED", data |-> Null]

\* ConversationFlow.showMainMenu
showMainMenu(phoneNumber) ==
    <<sendList(phoneNumber, "MAIN_MENU_BODY",
               <<MENU_SUMMARY, MENU_DETAIL, MENU_DISPUTE, MENU_HANDOVER>>)>>

\* A flow without the check of the phone the employee already has.
NeverLinked(row, phoneNumber) == FALSE

\* employee.phoneE164 && employee.phoneE164 !== phoneNumber
AlreadyLinked(row, phoneNumber) ==
    /\ row.phoneE164 # Null
    /\ ValueOf(row.phoneE164) # <<>>
    /\ ValueOf(row.phoneE164) # phoneNumber

\* A flow that confirms the identity and sends no menu.
ConfirmedReplyOnly(phoneNumber) ==
    <<sendText(phoneNumber, "IDENTITY_CONFIRMED", <<>>)>>

\* What handleNewUser sends once the phone is linked.
ConfirmedReplies(phoneNumber) ==
    <<sendText(phoneNumber, "IDENTITY_CONFIRMED", <<>>)>>
        \o showMainMenu(phoneNumber)

\* ConversationFlow.handleNewUser, a reply of the confirmation buttons.
confirmIdentity(phoneNumber, messageText, fault) ==
    LET employeeId == splitColonSecond(messageText)
        found == findById(employeeId)
        h == CHOOSE x \in found : TRUE
        data == [employee[h] EXCEPT !.phoneE164 = Some(phoneNumber)]
    IN IF employeeId = <<>>
       THEN Replies(<<sendText(phoneNumber, "ERROR_GENERAL", <<>>)>>)
       ELSE IF fault = "findEmployeeById" THEN Thrown(fault)
       ELSE IF found = {}
       THEN Replies(<<sendText(phoneNumber, "ERROR_NOT_FOUND", <<>>)>>)
       ELSE IF AlreadyLinked(employee[h], phoneNumber)
       THEN Replies(<<sendText(phoneNumber, "ERROR_ALREADY_LINKED", <<>>)>>)
       ELSE IF fault = "updateEmployee" \/ UniqueViolation(h, data)
       THEN Thrown("updateEmployee")
       ELSE [Replies(ConfirmedReplies(phoneNumber))
                EXCEPT !.employee = WriteEmployee(h, data)]

\* A lookup that offers the confirmation whatever phone the employee has.
lookupDniUnchecked(phoneNumber, messageText, fault) ==
    LET dni == trim(messageText)
        found == findByDni(dni)
        h == CHOOSE x \in found : TRUE
        dniLast3 == SubSeq(employee[h].dni, Len(employee[h].dni) - 2,
                           Len(employee[h].dni))
    IN IF ~IsDni(dni)
       THEN Replies(<<sendText(phoneNumber, "ERROR_INVALID_DNI", <<>>)>>)
       ELSE IF fault = "findEmployeeByDni" THEN Thrown(fault)
       ELSE IF found = {}
       THEN Replies(<<sendText(phoneNumber, "ERROR_NOT_FOUND", <<>>)>>)
       ELSE [Replies(<<sendButtons(phoneNumber, "CONFIRM_IDENTITY",
                                   <<dniLast3>>,
                                   <<CONFIRM_YES_PREFIX \o IdOf(h),
                                     CONFIRM_NO>>)>>)
                EXCEPT !.offered = offered \cup {<<phoneNumber, IdOf(h)>>}]

\* ConversationFlow.handleNewUser, free text: a DNI is expected.
lookupDni(phoneNumber, messageText, fault) ==
    LET dni == trim(messageText)
        found == findByDni(dni)
        h == CHOOSE x \in found : TRUE
        dniLast3 == SubSeq(employee[h].dni, Len(employee[h].dni) - 2,
                           Len(employee[h].dni))
    IN IF ~IsDni(dni)
       THEN Replies(<<sendText(phoneNumber, "ERROR_INVALID_DNI", <<>>)>>)
       ELSE IF fault = "findEmployeeByDni" THEN Thrown(fault)
       ELSE IF found = {}
       THEN Replies(<<sendText(phoneNumber, "ERROR_NOT_FOUND", <<>>)>>)
       ELSE IF AlreadyLinked(employee[h], phoneNumber)
       THEN Replies(<<sendText(phoneNumber, "ERROR_ALREADY_LINKED", <<>>)>>)
       ELSE [Replies(<<sendButtons(phoneNumber, "CONFIRM_IDENTITY",
                                   <<dniLast3>>,
                                   <<CONFIRM_YES_PREFIX \o IdOf(h),
                                     CONFIRM_NO>>)>>)
                EXCEPT !.offered = offered \cup {<<phoneNumber, IdOf(h)>>}]

\* ConversationFlow.handleNewUser
handleNewUser(phoneNumber, messageText, messageType, fault) ==
    IF messageType = "interactive"
    THEN IF startsWith(messageText, CONFIRM_YES_PREFIX)
         THEN confirmIdentity(phoneNumber, messageText, fault)
         ELSE IF messageText = CONFIRM_NO
         THEN Replies(<<sendText(phoneNumber, "IDENTITY_DENIED", <<>>)>>)
         ELSE Replies(<<sendText(phoneNumber, "ERROR_INVALID_DNI", <<>>)>>)
    ELSE lookupDni(phoneNumber, messageText, fault)

\* ConversationFlow.showSummary
showSummary(phoneNumber, employeeId, fault) ==
    LET found == findAccount(employeeId)
        a == CHOOSE x \in found : TRUE
        currentBalance == SumAmounts({t \in transactions : t.accountId = a})
        closed == {s \in statements : s.accountId = a}
        last == CHOOSE s \in closed : \A o \in closed : o.periodEnd <= s.periodEnd
    IN IF fault = "findAccount"
       THEN Caught(fault, <<sendText(phoneNumber, "ERROR_GENERAL", <<>>)>>)
       ELSE IF found = {}
       THEN Replies(<<sendText(phoneNumber, "ERROR_NOT_FOUND", <<>>)>>)
       ELSE Replies(<<sendText(phoneNumber, "SUMMARY",
                        (IF closed # {} THEN <<last.closingBalanceCents>>
                         ELSE <<>>) \o <<currentBalance>>)>>)

\* ConversationFlow.showCategorySelection
showCategorySelection(phoneNumber) ==
    Replies(<<sendButtons(phoneNumber, "CATEGORY_SELECT", <<>>,
                          <<CAT_PANADERIA, CAT_CARNICERIA, CAT_PROVEEDORES,
                            CAT_ADELANTO>>)>>)

\* take: 20 of showCategoryDetail's findMany, scaled down to the ledgers of
\* this model as the month is.
DETAIL_TAKE == 2

\* orderBy: { postedAt: 'desc' }, take: k: the k newest rows of txs.  Rows
\* posted at the same time come in the order of the store.
RECURSIVE Newest(_, _)
Newest(txs, k) ==
    IF k = 0 \/ txs = {} THEN {}
    ELSE LET t == CHOOSE x \in txs : \A o \in txs : o.postedAt <= x.postedAt
         IN {t} \cup Newest(txs \ {t}, k - 1)

\* ConversationFlow.showCategoryDetail: the rows found are listed and their
\* amounts added up for the total.
showCategoryDetail(phoneNumber, employeeId, category, fault) ==
    LET txs == {t \in transactions :
                  /\ \E a \in findById(employeeId) : t.accountId = a
                  /\ t.type = category}
        found == Newest(txs, DETAIL_TAKE)
    IN IF fault = "findTransactions"
       THEN Caught(fault, <<sendText(phoneNumber, "ERROR_GENERAL", <<>>)>>)
       ELSE IF found = {}
       THEN Replies(<<sendText(phoneNumber, "CATEGORY_DETAIL_TOTAL", <<0>>)>>)
       ELSE Replies(<<sendText(phoneNumber, "CATEGORY_DETAIL_HEADER",
                               <<SumAmounts(found), found>>)>>)

\* A flow that keeps the pending dispute in one variable for all addresses.
startDisputeUnkeyed(phoneNumber, employeeId) ==
    [Replies(<<sendText(phoneNumber, "DISPUTE_REQUEST", <<>>)>>)
        EXCEPT !.pending = [a \in WaIds |-> Some(employeeId)]]

\* ConversationFlow.startDispute
startDispute(phoneNumber, employeeId) ==
    [Replies(<<sendText(phoneNumber, "DISPUTE_REQUEST", <<>>)>>)
        EXCEPT !.pending = [disputeAwaitingByPhone
                               EXCEPT ![phoneNumber] = Some(employeeId)]]

\* The row of prisma.ticket.create; ids are given in order of creation.
NewTicket(employeeId, topic, status, lastMessage) ==
    [id |-> <<"t", <<"1", "2", "3", "4", "5", "6", "7", "8", "9">>
                        [Cardinality(tickets) + 1]>>,
     employeeId |-> employeeId, topic |-> topic, status |-> status,
     lastMessage |-> lastMessage]

\* ConversationFlow.handleDispute; the status is the default of the schema.
handleDispute(phoneNumber, messageText, data, fault) ==
    LET pending == IF disputeAwaitingByPhone[phoneNumber] # Null
                   THEN disputeAwaitingByPhone[phoneNumber] ELSE data
        ticket == NewTicket(ValueOf(pending), "DISPUTA", "ABIERTO",
                            Some(messageText))
    IN IF pending = Null
       THEN Replies(<<sendText(phoneNumber, "ERROR_GENERAL", <<>>)>>)
       ELSE IF fault = "createTicket"
       THEN Caught(fault, <<sendText(phoneNumber, "ERROR_GENERAL", <<>>)>>)
       ELSE [Replies(<<sendText(phoneNumber, "DISPUTE_CONFIRMED",
                                <<ticket.id>>)>>)
                EXCEPT !.tickets = tickets \cup {ticket},
                       !.pending = [disputeAwaitingByPhone
                                       EXCEPT ![phoneNumber] = Null]]

\* ConversationFlow.handoverToHR
handoverToHR(phoneNumber, employeeId, fault) ==
    IF fault = "createTicket"
    THEN Caught(fault, <<sendText(phoneNumber, "ERROR_GENERAL", <<>>)>>)
    ELSE [Replies(<<sendText(phoneNumber, "HANDOVER_MESSAGE", <<>>)>>)
             EXCEPT !.tickets = tickets \cup
                        {NewTicket(employeeId, "CONSULTA", "DERIVADO_RRHH",
                                   Null)}]

\* A category branch of handleMainMenu: the detail, then the menu.
categoryThenMenu(phoneNumber, employeeId, category, fault) ==
    LET detail == showCategoryDetail(phoneNumber, employeeId, category, fault)
    IN [detail EXCEPT !.sent = @ \o showMainMenu(phoneNumber)]

\* ConversationFlow.handleMainMenu
handleMainMenu(phoneNumber, messageText, data, fault) ==
    LET employeeId == ValueOf(data)
        lower == toLowerCase(messageText)
    IN IF messageText = MENU_SUMMARY \/ includes(lower, KW_RESUMEN)
       THEN showSummary(phoneNumber, employeeId, fault)
       ELSE IF messageText = MENU_DETAIL \/ includes(lower, KW_DETALLE)
       THEN showCategorySelection(phoneNumber)
       ELSE IF messageText = MENU_DISPUTE \/ includes(lower, KW_DISPUTAR)
       THEN startDispute(phoneNumber, employeeId)
       ELSE IF messageText = MENU_HANDOVER \/ includes(lower, KW_HABLAR)
       THEN handoverToHR(phoneNumber, employeeId, fault)
       ELSE IF messageText = CAT_PANADERIA \/ includes(lower, KW_PANADER)
       THEN categoryThenMenu(phoneNumber, employeeId, "PANADERIA", fault)
       ELSE IF messageText = CAT_CARNICERIA \/ includes(lower, KW_CARNICER)
       THEN categoryThenMenu(phoneNumber, employeeId, "CARNICERIA", fault)
       ELSE IF messageText = CAT_PROVEEDORES \/ includes(lower, KW_PROVEEDOR)
       THEN categoryThenMenu(phoneNumber, employeeId, "PROVEEDORES", fault)
       ELSE IF messageText = CAT_ADELANTO \/ includes(lower, KW_ADELANTO)
       THEN categoryThenMenu(phoneNumber, employeeId, "ADELANTO", fault)
       ELSE Replies(showMainMenu(phoneNumber))

\* ConversationFlow.processMessage
processMessage(state, phoneNumber, messageText, messageType, fault) ==
    CASE state.state = "NEW_OR_UNIDENTIFIED" ->
            handleNewUser(phoneNumber, messageText, messageType, fault)
      [] state.state = "MAIN_MENU" ->
            handleMainMenu(phoneNumber, messageText, state.data, fault)
      [] state.state = "SUMMARY" ->
            showSummary(phoneNumber, ValueOf(state.data), fault)
      [] state.state = "DETAIL_BY_CATEGORY" ->
            showCategorySelection(phoneNumber)
      [] state.state = "DISPUTE_CHARGE" ->
            handleDispute(phoneNumber, messageText, state.data, fault)
      [] OTHER -> Replies(showMainMenu(phoneNumber))

\* ConversationFlow.handleMessage: the state is derived from the store, the
\* message is processed in it, and an error that leaves the handlers is
\* answered with the general error text.
handleMessage(phoneNumber, messageText, messageType, fault) ==
    LET r == IF fault = "findEmployeeByPhone" THEN Thrown(fault)
             ELSE processMessage(getOrCreateConversationState(phoneNumber),
                                 phoneNumber, messageText, messageType, fault)
    IN IF r.threw
       THEN [r EXCEPT !.sent = @ \o <<sendText(phoneNumber, "ERROR_GENERAL",
                                              <<>>)>>]
       ELSE r

\* An inbound event of the webhook, handled to its end.  A fault is a store
\* call the event reaches and that fails.
HandleMessage(phoneNumber, messageText, messageType, fault) ==
    LET r == handleMessage(phoneNumber, messageText, messageType, fault)
    IN /\ fault = NoFault \/ r.fault = fault
       /\ Cardinality(r.tickets) <= MaxTickets
       /\ employee' = r.employee
       /\ tickets' = r.tickets
       /\ disputeAwaitingByPhone' = r.pending
       /\ offered' = r.offered
       /\ lastOp' = [op |-> "chat", from |-> phoneNumber,
                     text |-> messageText, type |-> messageType,
                     state |-> IF fault = "findEmployeeByPhone" THEN "unresolved"
                               ELSE getOrCreateConversationState(phoneNumber).state,
                     fault |-> r.fault, sent |-> r.sent]
       /\ UNCHANGED inFlight
       /\ UNCHANGED <<ledgerVars, adminVars>>

\* The webhook requests that can be in flight at once.
Requests == {1, 2}

\* No request: the slot is free.
NoRequest ==
    [pc |-> "idle", messages |-> <<>>, i |-> 0, state |-> Null,
     results |-> <<>>]

\* The directory before any conversation: no ticket, nothing pending, no
\* request in flight.
NoConversation ==
    /\ tickets = {}
    /\ disputeAwaitingByPhone = [a \in WaIds |-> Null]
    /\ offered = {}
    /\ lastOp = [op |-> "none"]
    /\ inFlight = [r \in Requests |-> NoRequest]
    /\ importJob = NoImport

\* prisma/seed.ts: an account with closing day 20 for every employee.
SeedAccounts ==
    {[employeeId |-> IdOf(h), closingDay |-> 20] : h \in Holders}

\* The seeded directory.
InitDirectory ==
    /\ employee = [h \in Holders |->
                     [dni |-> SeedDni[h], phoneE164 |-> Some(SeedPhone(h))]]
    /\ account = SeedAccounts
    /\ NoConversation

\* The faults injected into a close: one before the statement is written,
\* one between the statement and lastClosingAt, and the last write.
InjectedFaults == {"createStatement", "generateStatementPDF", "updateAccount"}

InitLedger ==
    /\ transactions = {}
    /\ now = 0
    /\ lastClosingAt = [a \in Accounts |-> Null]
    /\ statements = {}
    /\ periodQuery = Null
    /\ bulk = Idle
    /\ InitDirectory

NextLedger ==
    \/ \E a \in Accounts, c \in Amounts, d \in Times, ty \in TransactionType :
          PostTransaction(a, c, d, ty)
    \/ \E a \in Accounts, s \in Times, e \in Times : QueryPeriod(a, s, e)

SpecLedger == InitLedger /\ [][NextLedger]_vars

\* Single closes, with postings and the clock in between.
NextClose ==
    \/ \E a \in Accounts, c \in Amounts, d \in Times :
          /\ Cardinality(transactions) < MaxCloseTx
          /\ PostTransaction(a, c, d, "ADELANTO")
    \/ Tick
    \/ \E a \in Accounts, d \in Times, f \in InjectedFaults \cup {NoFault} :
          CloseAccountJob(a, d, f)
    \/ \E a \in Accounts, d \in Times, f \in InjectedFaults \cup {NoFault} :
          ClosePeriod(a, d, f)

SpecClose == InitLedger /\ [][NextClose]_vars

\* The ledger after prisma/seed.ts: postings on every account.
SeedTransactions ==
    {[accountId |-> 1, amountCents |-> 2, postedAt |-> 0,
      type |-> "PANADERIA", n |-> 1],
     [accountId |-> 2, amountCents |-> -1, postedAt |-> 1,
      type |-> "ADELANTO", n |-> 1]}

InitBulk ==
    /\ transactions = SeedTransactions
    /\ now \in Times
    /\ lastClosingAt = [a \in Accounts |-> Null]
    /\ statements = {}
    /\ periodQuery = Null
    /\ bulk = Idle
    /\ InitDirectory

\* Bulk closes over the seeded ledger, at any date.
NextBulk ==
    \/ \E d \in Times, f \in BOOLEAN : StartCloseAll(d, f)
    \/ \E a \in Accounts, f \in InjectedFaults \cup {NoFault} : CloseAllStep(a, f)
    \/ FinishCloseAll

SpecBulk == InitBulk /\ [][NextBulk]_vars

(***************************************************************************)
(* Imports over the seeded store.                                          *)
(***************************************************************************)
\* The CSV files of the imports, with the file type they are queued under:
\* rows of a new and of a seeded employee, a row without DNI, postings of
\* seeded employees and of one the seed lacks, a row without amount, a row
\* of an unknown type.
ImportFiles ==
    LET ROW_NEW ==
            [employeeCode |-> CodeOf(3), fullName |-> <<"E", "v", "a">>,
             dni |-> DNI_3, phoneE164 |-> NineForm(<<"1", "9">>)]
        ROW_SAME ==
            [employeeCode |-> CodeOf(1), fullName |-> <<"A", "n", "a">>,
             dni |-> DNI_1, phoneE164 |-> LocalForm(<<"1", "1">>)]
        ROW_NO_DNI ==
            [employeeCode |-> CodeOf(2), fullName |-> <<"L", "u", "z">>,
             dni |-> <<>>, phoneE164 |-> NineForm(<<"1", "5">>)]
        TX_BREAD ==
            [employeeCode |-> CodeOf(1), postedAt |-> <<"1">>, type |-> "PANADERIA",
             description |-> <<"p", "a", "n">>, amountARS |-> <<"0", ".", "0", "2">>]
        TX_ADVANCE ==
            [employeeCode |-> CodeOf(2), postedAt |-> <<"0">>, type |-> "ADELANTO",
             description |-> <<"a", "d">>, amountARS |-> <<"-", "0", ".", "0", "1">>]
        TX_NEW_HOLDER ==
            [employeeCode |-> CodeOf(3), postedAt |-> <<"2">>, type |-> "PANADERIA",
             description |-> <<"p", "a", "n">>, amountARS |-> <<"0", ".", "0", "1", "5">>]
        TX_NO_AMOUNT ==
            [employeeCode |-> CodeOf(1), postedAt |-> <<"1">>, type |-> "PANADERIA",
             description |-> <<"p", "a", "n">>, amountARS |-> <<>>]
        TX_BAD_TYPE ==
            [employeeCode |-> CodeOf(1), postedAt |-> <<"1">>, type |-> "OTRO",
             description |-> <<"x">>, amountARS |-> <<"1">>]
    IN {<<"employees", <<ROW_NEW>>>>,
        <<"employees", <<ROW_NO_DNI, ROW_NEW>>>>,
        <<"employees", <<ROW_NEW, ROW_SAME>>>>,
        <<"transactions", <<TX_BREAD>>>>,
        <<"transactions", <<TX_BREAD, TX_ADVANCE>>>>,
        <<"transactions", <<TX_NO_AMOUNT, TX_NEW_HOLDER>>>>,
        <<"transactions", <<TX_BAD_TYPE>>>>,
        <<"statements", <<TX_BREAD>>>>}

\* batchSize: one row, two rows, and the default of 100.
BatchSizes == {1, 2, 100}

NextImport ==
    \/ \E f \in ImportFiles, b \in BatchSizes : StartImport(f[1], f[2], b)
    \/ ImportData
    \/ ImportEnd
    \/ \E run \in BagToSet(importJob.runs), fault \in RowFaults \cup {NoFault} :
          ImportRow(run, fault)
    \/ \E run \in BagToSet(importJob.runs) : ImportBatchDone(run)

SpecImport == InitLedger /\ [][NextImport]_vars

(***************************************************************************)
(* The close job with its notification: MonthlyCloseJob.process.           *)
(***************************************************************************)
NOTIF_VIEW_SUMMARY == <<"N", "O", "T", "I", "F", "_", "V", "I", "E", "W", "_", "S", "U", "M", "M", "A", "R", "Y">>
NOTIF_GET_PDF == <<"N", "O", "T", "I", "F", "_", "G", "E", "T", "_", "P", "D", "F">>

\* A notifier whose failure to send leaves it as an error.
NotificationErrorRethrown(delivered) == ~delivered

\* MonthlyCloseJob.sendClosingNotification: TRUE when an error leaves it.
\* The client returns false for a failed send and the catch block of the
\* method logs whatever is thrown, so nothing does.
NotificationThrows(delivered) == FALSE

\* The message sendClosingNotification hands to the client.
ClosingNotification(accountId, periodData) ==
    sendButtons(employee[accountId].phoneE164, "CUENTA_LISTO",
                <<periodData.start, periodData.end>>,
                <<NOTIF_VIEW_SUMMARY, NOTIF_GET_PDF>>)

\* The sends of closeAccount(accountId, closingDate, sendNotifications)
\* failing at fault: the notification comes after the last store call.
NotificationsOfClose(accountId, closingDate, sendNotifications, fault) ==
    IF sendNotifications /\ Completed("updateAccount", fault)
    THEN <<ClosingNotification(accountId,
                               ClosingPeriodData(accountId, closingDate))>>
    ELSE <<>>

\* A process that logs the error of the close and returns.
ErrorSwallowed(sendNotifications, fault, delivered) == "fulfilled"

\* How the promise of closeAccount settles.
CloseOutcome(sendNotifications, fault, delivered) ==
    IF fault # NoFault THEN "rejected"
    ELSE IF sendNotifications /\ NotificationThrows(delivered) THEN "rejected"
    ELSE "fulfilled"

\* MonthlyCloseJob.process with an accountId and sendNotifications: one
\* close and, when asked for, its notification, which the channel delivers
\* or not.
ProcessCloseJob(accountId, closingDate, sendNotifications, fault, delivered) ==
    LET sent == NotificationsOfClose(accountId, closingDate,
                                     sendNotifications, fault)
    IN /\ delivered \/ sent # <<>>
       /\ closeAccount(accountId, closingDate, fault)
       /\ lastOp' = [op |-> "close", accountId |-> accountId,
                     closingDate |-> closingDate,
                     sendNotifications |-> sendNotifications,
                     outcome |-> CloseOutcome(sendNotifications, fault,
                                              delivered),
                     sent |-> sent, delivered |-> delivered /\ sent # <<>>]
       /\ UNCHANGED <<transactions, now, periodQuery, bulk>>
       /\ UNCHANGED <<employee, tickets, disputeAwaitingByPhone, offered, inFlight>>
       /\ UNCHANGED adminVars

\* Close jobs over the seeded ledger, at any date and on any day.
NextJob ==
    \E a \in Accounts, d \in Times, n \in BOOLEAN,
       f \in CloseFaults \cup {NoFault}, ok \in BOOLEAN :
          ProcessCloseJob(a, d, n, f, ok)

SpecJob == InitBulk /\ [][NextJob]_vars

(***************************************************************************)
(* Conversations over the seeded ledger.                                   *)
(***************************************************************************)
TXT_DNI_PADDED == <<" ", "2", "0", "3", "0", "0", "1", "2", "3", " ">>
TXT_DNI_UNKNOWN == <<"1", "2", "3", "4", "5", "6", "7">>
TXT_DNI_SHORT == <<"1", "2", "3", "4", "5", "6">>
TXT_DISPUTAR == <<"Q", "u", "i", "e", "r", "o", " ", "D", "I", "S", "P", "U", "T", "A", "R">>
TXT_HABLAR == <<"h", "a", "b", "l", "a", "r">>
TXT_COBRO == <<"c", "o", "b", "r", "o", " ", "m", "a", "l">>
TXT_DETALLE_PANADERIA == <<"D", "e", "t", "a", "l", "l", "e", " ", "p", "a", "n", "a", "d", "e", "r", "i", "a">>
TXT_ADELANTO == <<"a", "d", "e", "l", "a", "n", "t", "o", "s">>
TXT_HOLA == <<"h", "o", "l", "a">>

\* The reply ids the webhook takes from interactive messages: the buttons and
\* rows the flow sends, an id of no employee, an id cut short, and the empty
\* id of a reply that is neither a button nor a list reply.
InteractiveIds ==
    {CONFIRM_YES_PREFIX \o IdOf(1), CONFIRM_YES_PREFIX \o <<"e", "9">>,
     CONFIRM_YES_PREFIX, CONFIRM_NO, MENU_SUMMARY, MENU_DETAIL, MENU_DISPUTE,
     MENU_HANDOVER, CAT_PANADERIA, <<>>}
FreeTexts ==
    {TXT_DNI_PADDED, TXT_DNI_UNKNOWN, TXT_DNI_SHORT, TXT_DISPUTAR, TXT_HABLAR,
     TXT_COBRO, TXT_DETALLE_PANADERIA, TXT_ADELANTO, TXT_HOLA}
\* <<messageText, messageType>> as the webhook passes them on.
Events ==
    (InteractiveIds \X {"interactive"}) \cup (FreeTexts \X {"text"})
        \cup {<<TXT_HOLA, "button">>, <<MENU_DISPUTE, "text">>}

\* The seeded ledger, with nothing closed.
SeedLedger ==
    /\ transactions = SeedTransactions
    /\ now = 0
    /\ lastClosingAt = [a \in Accounts |-> Null]
    /\ statements = {}
    /\ periodQuery = Null
    /\ bulk = Idle

\* The employees are registered, each with the phone of the seed or with
\* none yet.
InitChat ==
    /\ SeedLedger
    /\ \E seeded \in SUBSET Holders :
          employee = [h \in Holders |->
                        [dni |-> SeedDni[h],
                         phoneE164 |-> IF h \in seeded
                                       THEN Some(SeedPhone(h)) ELSE Null]]
    /\ account = SeedAccounts
    /\ NoConversation

\* A failing store call, each with an event that reaches it.
FaultyEvents ==
    {<<TXT_HOLA, "text", "findEmployeeByPhone">>,
     <<CONFIRM_YES_PREFIX \o IdOf(1), "interactive", "findEmployeeById">>,
     <<CONFIRM_YES_PREFIX \o IdOf(1), "interactive", "updateEmployee">>,
     <<TXT_DNI_PADDED, "text", "findEmployeeByDni">>,
     <<MENU_SUMMARY, "interactive", "findAccount">>,
     <<CAT_PANADERIA, "interactive", "findTransactions">>,
     <<MENU_HANDOVER, "interactive", "createTicket">>}

NextChat ==
    \/ \E a \in WaIds, e \in Events : HandleMessage(a, e[1], e[2], NoFault)
    \/ \E a \in WaIds, e \in FaultyEvents : HandleMessage(a, e[1], e[2], e[3])

SpecChat == InitChat /\ [][NextChat]_vars

\* A ledger where the first account has more purchases of one category than
\* one detail lists, next to rows of another category and of another account.
BusyTransactions ==
    {[accountId |-> 1, amountCents |-> 2, postedAt |-> d,
      type |-> "PANADERIA", n |-> 1] : d \in 0..DETAIL_TAKE}
      \cup {[accountId |-> 1, amountCents |-> -1, postedAt |-> 1,
              type |-> "ADELANTO", n |-> 1],
             [accountId |-> 2, amountCents |-> 2, postedAt |-> 1,
              type |-> "PANADERIA", n |-> 1]}

\* The chat on the busy ledger.
InitDetail ==
    /\ transactions = BusyTransactions
    /\ now = 0
    /\ lastClosingAt = [a \in Accounts |-> Null]
    /\ statements = {}
    /\ periodQuery = Null
    /\ bulk = Idle
    /\ \E seeded \in SUBSET Holders :
          employee = [h \in Holders |->
                        [dni |-> SeedDni[h],
                         phoneE164 |-> IF h \in seeded
                                       THEN Some(SeedPhone(h)) ELSE Null]]
    /\ account = SeedAccounts
    /\ NoConversation

SpecDetail == InitDetail /\ [][NextChat]_vars

(***************************************************************************)
(* The back office on cases: TicketService.                                *)
(***************************************************************************)
TicketStatus == {"ABIERTO", "DERIVADO_RRHH", "CERRADO"}

\* lastMessage as handoverToHR and closeTicket write it, in ASCII letters.
NOTE_HANDED_OVER ==
    <<"D", "e", "r", "i", "v", "a", "d", "o", " ", "a", " ", "R", "R",
    ".", " ", "H", "H", ".", " ", "p", "a", "r", "a", " ", "a", "t", "e",
    "n", "c", "i", "o", "n", " ", "p", "e", "r", "s", "o", "n", "a", "l",
    "i", "z", "a", "d", "a">>
NOTE_CLOSED ==
    <<"T", "i", "c", "k", "e", "t", " ", "c", "e", "r", "r", "a", "d",
    "o", " ", "p", "o", "r", " ", "R", "R", ".", " ", "H", "H", ".">>

\* The rows after prisma.ticket.update({ where: { id }, data }): the fields
\* data holds replace those of the row.
ticketUpdate(id, data) ==
    {IF t.id # id THEN t
     ELSE [t EXCEPT !.status = IF data.status # Null THEN ValueOf(data.status)
                               ELSE @,
                    !.lastMessage = IF data.lastMessage # Null
                                    THEN data.lastMessage ELSE @] :
        t \in tickets}

\* A call of TicketService on the ticket id: the update is rejected, and
\* rethrown, when no row has the id.
TicketCall(name, id, data) ==
    /\ tickets' = ticketUpdate(id, data)
    /\ lastOp' = [op |-> name, id |-> id,
                  threw |-> \A t \in tickets : t.id # id]
    /\ UNCHANGED <<employee, disputeAwaitingByPhone, offered, inFlight>>
    /\ UNCHANGED <<ledgerVars, adminVars>>

\* TicketService.updateTicket(id, data)
UpdateTicket(id, data) == TicketCall("updateTicket", id, data)

\* TicketService.handoverToHR(id), behind POST /tickets/:id/hand-over
HandoverTicket(id) ==
    TicketCall("handoverToHR", id,
               [status |-> Some("DERIVADO_RRHH"),
                lastMessage |-> Some(NOTE_HANDED_OVER)])

\* TicketService.closeTicket(id)
CloseTicket(id) ==
    TicketCall("closeTicket", id,
               [status |-> Some("CERRADO"), lastMessage |-> Some(NOTE_CLOSED)])

\* Calls on the first tickets and on an id no ticket has, updateTicket with
\* a status or with a note alone; the chat events bind an address and open
\* a case.
TicketIds == {<<"t", "1">>, <<"t", "2">>, <<"t", "9">>}

NextTickets ==
    \/ \E e \in {<<TXT_DNI_PADDED, "text">>,
                  <<CONFIRM_YES_PREFIX \o IdOf(1), "interactive">>,
                  <<MENU_DISPUTE, "interactive">>, <<TXT_COBRO, "text">>,
                  <<MENU_HANDOVER, "interactive">>} :
          HandleMessage(WaForm(<<"1", "1">>), e[1], e[2], NoFault)
    \/ \E id \in TicketIds, s \in TicketStatus :
          UpdateTicket(id, [status |-> Some(s), lastMessage |-> Null])
    \/ \E id \in TicketIds :
          UpdateTicket(id, [status |-> Null, lastMessage |-> Some(NOTE_CLOSED)])
    \/ \E id \in TicketIds : HandoverTicket(id)
    \/ \E id \in TicketIds : CloseTicket(id)

SpecTickets == InitChat /\ [][NextTickets]_vars

(***************************************************************************)
(* Identification by chat next to the back office: the CSV import of       *)
(* employees and updateEmployee.                                           *)
(***************************************************************************)
IdentityEvents ==
    {<<TXT_DNI_PADDED, "text">>, <<TXT_HOLA, "text">>,
     <<CONFIRM_YES_PREFIX \o IdOf(1), "interactive">>,
     <<CONFIRM_YES_PREFIX \o IdOf(2), "interactive">>,
     <<CONFIRM_NO, "interactive">>}

\* CSV rows: the code of an employee, its DNI or the DNI of another one,
\* and the phone in one of the forms a sheet holds, or left empty.
ImportRows ==
    {[employeeCode |-> CodeOf(h), fullName |-> <<"A", "n", "a">>,
      dni |-> IF own THEN SeedDni[h] ELSE SeedDni[1], phoneE164 |-> p] :
        h \in EmployeeIds, own \in BOOLEAN,
        p \in {NineForm(<<"1", "1">>), LocalForm(<<"1", "5">>)}}
    \cup
    {[employeeCode |-> CodeOf(1), fullName |-> <<"A", "n", "a">>,
      dni |-> SeedDni[1], phoneE164 |-> p] :
        p \in {SpacedForm(<<"1", "5">>), WaForm(<<"1", "1">>), <<>>}}

\* The phones updateEmployee is given: they are stored as they come.
UpdatePhones ==
    {PlusForm(<<"1", "1">>), WaForm(<<"1", "1">>), WaForm(<<"1", "5">>)}

NextIdentity ==
    \/ \E a \in WaIds, e \in IdentityEvents : HandleMessage(a, e[1], e[2], NoFault)
    \/ \E a \in WaIds :
          HandleMessage(a, CONFIRM_YES_PREFIX \o IdOf(1), "interactive",
                        "updateEmployee")
    \/ \E row \in ImportRows : ImportEmployeeRow(row)
    \/ \E h \in EmployeeIds, p \in UpdatePhones : UpdateEmployee(h, p)

SpecIdentity == InitChat /\ [][NextIdentity]_vars

(***************************************************************************)
(* Webhook requests in flight.  Express runs the POST handler of every     *)
(* request as its own async call: the handlers of two requests interleave  *)
(* at their awaits, which are the store calls.  A request carries one or   *)
(* more messages and handles them one after the other.                     *)
(***************************************************************************)
\* The message a request is handling.
Current(req) == req.messages[req.i]

\* A handler of the flow is running for the request.
Handling(req) == req.pc \in {"getState", "processMessage", "update"}

\* The for loops of the POST handler and of processMessages: the handler of
\* a message has returned after these sends; the next message is taken, or
\* the request is answered.
NextMessage(req, sent) ==
    LET results == Append(req.results,
                          [from |-> Current(req).from,
                           text |-> Current(req).text,
                           state |-> ValueOf(req.state).state,
                           sent |-> sent])
    IN IF req.i < Len(req.messages)
       THEN [req EXCEPT !.i = @ + 1, !.pc = "getState", !.state = Null,
                        !.results = results]
       ELSE [req EXCEPT !.pc = "done", !.state = Null, !.results = results]

\* router.post('/whatsapp'): a request arrives and the handler of its first
\* message is started; nothing makes it wait for the requests in flight.
ReceiveWebhook(r, messages) ==
    /\ inFlight[r].pc \in {"idle", "done"}
    /\ inFlight' = [inFlight EXCEPT ![r] =
                       [pc |-> "getState", messages |-> messages, i |-> 1,
                        state |-> Null, results |-> <<>>]]
    /\ UNCHANGED <<employee, tickets, disputeAwaitingByPhone, offered, lastOp>>
    /\ UNCHANGED <<ledgerVars, adminVars>>

\* handleMessage, first await: getOrCreateConversationState returns.
GetState(r) ==
    /\ inFlight[r].pc = "getState"
    /\ inFlight' = [inFlight EXCEPT ![r] =
                       [@ EXCEPT !.pc = "processMessage",
                                 !.state = Some(getOrCreateConversationState(
                                                    Current(inFlight[r]).from))]]
    /\ UNCHANGED <<employee, tickets, disputeAwaitingByPhone, offered, lastOp>>
    /\ UNCHANGED <<ledgerVars, adminVars>>

\* TRUE when handleNewUser, given this reply of the confirmation buttons and
\* the rows as they are, goes on to prisma.employee.update.
PassesLinkCheck(state, m) ==
    /\ state.state = "NEW_OR_UNIDENTIFIED"
    /\ m.type = "interactive"
    /\ startsWith(m.text, CONFIRM_YES_PREFIX)
    /\ splitColonSecond(m.text) # <<>>
    /\ \E h \in findById(splitColonSecond(m.text)) :
           ~AlreadyLinked(employee[h], m.from)

\* processMessage in the state read before: the handler makes its store
\* call on the rows as they are now and returns, or, for a confirm-yes that
\* passes the check of the phone, goes on to the update.
ProcessInState(r) ==
    LET req == inFlight[r]
        m == Current(req)
        e == processMessage(ValueOf(req.state), m.from, m.text, m.type, NoFault)
    IN /\ req.pc = "processMessage"
       /\ IF PassesLinkCheck(ValueOf(req.state), m)
          THEN /\ inFlight' = [inFlight EXCEPT ![r] = [@ EXCEPT !.pc = "update"]]
               /\ UNCHANGED <<employee, tickets, disputeAwaitingByPhone, offered>>
          ELSE /\ Cardinality(e.tickets) <= MaxTickets
               /\ inFlight' = [inFlight EXCEPT ![r] = NextMessage(req, e.sent)]
               /\ employee' = e.employee
               /\ tickets' = e.tickets
               /\ disputeAwaitingByPhone' = e.pending
               /\ offered' = e.offered
       /\ UNCHANGED lastOp
       /\ UNCHANGED <<ledgerVars, adminVars>>

\* handleNewUser from prisma.employee.update on: the phone is written over
\* whatever the row holds by now; an error of the store is answered by the
\* catch of handleMessage.
LinkPhone(r) ==
    LET req == inFlight[r]
        m == Current(req)
        h == CHOOSE x \in findById(splitColonSecond(m.text)) : TRUE
        data == [employee[h] EXCEPT !.phoneE164 = Some(m.from)]
    IN /\ req.pc = "update"
       /\ IF UniqueViolation(h, data)
          THEN /\ employee' = employee
               /\ inFlight' = [inFlight EXCEPT ![r] =
                     NextMessage(req, <<sendText(m.from, "ERROR_GENERAL", <<>>)>>)]
          ELSE /\ employee' = WriteEmployee(h, data)
               /\ inFlight' = [inFlight EXCEPT ![r] =
                     NextMessage(req, ConfirmedReplies(m.from))]
       /\ UNCHANGED <<tickets, disputeAwaitingByPhone, offered, lastOp>>
       /\ UNCHANGED <<ledgerVars, adminVars>>

\* The messages of the requests: a confirm-yes for either employee, the
\* dispute choice of the menu, a greeting.
RaceMessages ==
    {[from |-> a, text |-> t, type |-> "interactive"] :
        a \in WaIds,
        t \in {CONFIRM_YES_PREFIX \o IdOf(1), CONFIRM_YES_PREFIX \o IdOf(2),
               MENU_DISPUTE}}
    \cup {[from |-> a, text |-> TXT_HOLA, type |-> "text"] : a \in WaIds}

\* Request bodies: one message, or a confirm-yes followed by the dispute
\* choice of the same sender.
Payloads ==
    {<<m>> : m \in RaceMessages}
    \cup {<<[from |-> a, text |-> CONFIRM_YES_PREFIX \o IdOf(1),
             type |-> "interactive"],
            [from |-> a, text |-> MENU_DISPUTE, type |-> "interactive"]>> :
             a \in WaIds}

NextRace ==
    \/ \E r \in Requests, p \in Payloads : ReceiveWebhook(r, p)
    \/ \E r \in Requests : GetState(r)
    \/ \E r \in Requests : ProcessInState(r)
    \/ \E r \in Requests : LinkPhone(r)

SpecRace == InitChat /\ [][NextRace]_vars

(***************************************************************************)
(* The webhook routes, one request at a time: the verification GET and     *)
(* the POST with its messages, each handled to the end before the next.    *)
(***************************************************************************)
\* process.env.VERIFY_TOKEN as the README has it configured.
VERIFY_TOKEN == "tu_verify_token"

\* A route that looks at hub.mode alone.
VerifiedByModeAlone(mode, token) == mode = Some("subscribe")

\* mode === 'subscribe' && token === verifyToken
Verified(mode, token) == mode = Some("subscribe") /\ token = Some(VERIFY_TOKEN)

\* router.get('/whatsapp'): 200 with the challenge, or 403 'Forbidden'; a
\* query parameter the request lacks is undefined, here Null.
VerifyWebhook(mode, token, challenge) ==
    /\ lastOp' = [op |-> "verify", mode |-> mode, token |-> token,
                  challenge |-> challenge,
                  status |-> IF Verified(mode, token) THEN 200 ELSE 403,
                  body |-> IF Verified(mode, token) THEN challenge
                           ELSE Some("Forbidden")]
    /\ UNCHANGED <<employee, tickets, disputeAwaitingByPhone, offered, inFlight>>
    /\ UNCHANGED <<ledgerVars, adminVars>>

WHATSAPP_BUSINESS_ACCOUNT == "whatsapp_business_account"

\* What handleTextMessage, handleInteractiveMessage and handleButtonMessage
\* pass to the flow: text.body, the id of the button or list reply (the
\* empty string for another interactive type), the payload of the button.
messageTextOf(message) ==
    IF message.type = "interactive"
    THEN IF message.sub \in {"button_reply", "list_reply"} THEN message.text
         ELSE <<>>
    ELSE message.text

\* A POST handler that gives up at the first message that fails.
answerFailure(req, result) ==
    LET results == Append(req.results, result)
    IN IF result.fault # NoFault
       THEN [req EXCEPT !.pc = "done", !.results = results, !.status = 500,
                        !.body = "Internal Server Error"]
       ELSE IF req.i < Len(req.messages)
       THEN [req EXCEPT !.i = @ + 1, !.results = results]
       ELSE [req EXCEPT !.pc = "done", !.results = results, !.status = 200,
                        !.body = "OK"]

\* The for loops of the POST handler and of processMessages after a
\* message: processMessage and the handle functions catch what the message
\* throws, so the next message is taken, or 200 'OK' is sent.
afterMessage(req, result) ==
    LET results == Append(req.results, result)
    IN IF req.i < Len(req.messages)
       THEN [req EXCEPT !.i = @ + 1, !.results = results]
       ELSE [req EXCEPT !.pc = "done", !.results = results, !.status = 200,
                        !.body = "OK"]

\* router.post('/whatsapp') up to the first message: 400 for another
\* object, 200 'OK' when the entries hold no message.  messages are those
\* of the entries and changes of the body, in array order.
PostWebhook(r, object, messages) ==
    /\ inFlight[r].pc \in {"idle", "done"}
    /\ inFlight' = [inFlight EXCEPT ![r] =
          [pc |-> IF object = WHATSAPP_BUSINESS_ACCOUNT /\ messages # <<>>
                  THEN "handling" ELSE "done",
           object |-> object, messages |-> messages, i |-> 1,
           state |-> Null, results |-> <<>>,
           status |-> IF object # WHATSAPP_BUSINESS_ACCOUNT THEN 400
                      ELSE IF messages = <<>> THEN 200 ELSE 0,
           body |-> IF object # WHATSAPP_BUSINESS_ACCOUNT
                    THEN "Invalid webhook object"
                    ELSE IF messages = <<>> THEN "OK" ELSE ""]]
    /\ UNCHANGED <<employee, tickets, disputeAwaitingByPhone, offered, lastOp>>
    /\ UNCHANGED <<ledgerVars, adminVars>>

\* processMessage for the message the request is at: the flow handles a
\* text, interactive or button message; another type is logged and skipped.
ProcessMessage(r, fault) ==
    LET req == inFlight[r]
        m == Current(req)
        supported == m.type \in {"text", "interactive", "button"}
        e == handleMessage(m.from, messageTextOf(m), m.type, fault)
        result == [from |-> m.from, text |-> messageTextOf(m),
                   type |-> m.type,
                   fault |-> IF supported THEN e.fault ELSE NoFault,
                   sent |-> IF supported THEN e.sent ELSE <<>>]
    IN /\ req.pc = "handling"
       /\ supported /\ fault # NoFault => e.fault = fault
       /\ ~supported => fault = NoFault
       /\ supported => Cardinality(e.tickets) <= MaxTickets
       /\ inFlight' = [inFlight EXCEPT ![r] = afterMessage(req, result)]
       /\ employee' = IF supported THEN e.employee ELSE employee
       /\ tickets' = IF supported THEN e.tickets ELSE tickets
       /\ disputeAwaitingByPhone' = IF supported THEN e.pending
                                     ELSE disputeAwaitingByPhone
       /\ offered' = IF supported THEN e.offered ELSE offered
       /\ UNCHANGED lastOp
       /\ UNCHANGED <<ledgerVars, adminVars>>

\* The messages of the POST requests, all from one address: a DNI, the
\* confirmation, menu choices as button and list replies, a button
\* message, an interactive message of another type, an image.
WebhookMessages ==
    LET from == WaForm(<<"1", "1">>)
    IN {[from |-> from, type |-> "text", sub |-> "", text |-> TXT_DNI_PADDED],
        [from |-> from, type |-> "interactive", sub |-> "button_reply",
         text |-> CONFIRM_YES_PREFIX \o IdOf(1)],
        [from |-> from, type |-> "interactive", sub |-> "button_reply",
         text |-> MENU_SUMMARY],
        [from |-> from, type |-> "interactive", sub |-> "list_reply",
         text |-> MENU_HANDOVER],
        [from |-> from, type |-> "interactive", sub |-> "nfm_reply",
         text |-> MENU_HANDOVER],
        [from |-> from, type |-> "button", sub |-> "", text |-> TXT_HOLA],
        [from |-> from, type |-> "image", sub |-> "", text |-> <<>>]}

\* Request bodies: no message, one message, or two messages of which the
\* second is a button or list reply.
WebhookBodies ==
    {<<>>} \cup {<<m>> : m \in WebhookMessages}
        \cup {<<m, n>> : m \in {x \in WebhookMessages : x.type # "button"},
                         n \in {x \in WebhookMessages :
                                  x.sub \in {"button_reply", "list_reply"}}}

NextWebhook ==
    \/ \E mode \in {Some("subscribe"), Some("unsubscribe")},
          token \in {Null, Some(VERIFY_TOKEN), Some("wrong-token")} :
          VerifyWebhook(mode, token, Some("test-challenge"))
    \/ \E object \in {WHATSAPP_BUSINESS_ACCOUNT, "page"},
          messages \in WebhookBodies : PostWebhook(1, object, messages)
    \/ \E fault \in {NoFault, "findEmployeeByPhone", "findAccount",
                     "createTicket"} : ProcessMessage(1, fault)

SpecWebhook == InitChat /\ [][NextWebhook]_vars

(***************************************************************************)
(* Claims.                                                                 *)
(***************************************************************************)

\* C1: for every account, posted transactions and start <= end,
\* getPeriodData(account, start, end).closingBalance equals
\* computeBalance(account, end), also when a transaction is posted exactly
\* at start or before it.
C1_ClosingIsBalanceThroughEnd ==
    periodQuery # Null =>
        ValueOf(periodQuery).data.closingBalance = ValueOf(periodQuery).balanceAtEnd

\* C2: the closingBalanceCents of every statement a close persists equals
\* the sum of amountCents of the account's transactions posted at or before
\* the statement's periodEnd, as they stand when the close runs.
C2_StatementBalanceThroughPeriodEnd ==
    [][\A s \in statements' \ statements :
          s.closingBalanceCents =
              SumAmounts({t \in transactions :
                            /\ t.accountId = s.accountId
                            /\ t.postedAt <= s.periodEnd})]_vars

\* The entries of WHATSAPP_COPYS a handled event sent, in order.
Copies(sent) == [i \in DOMAIN sent |-> sent[i].copy]

\* The step handles an inbound event from address a.
EventFrom(a) == lastOp'.op = "chat" /\ lastOp'.from = a

\* The operation before this step was an event from a, answered with copy.
AnsweredBefore(a, copy) ==
    /\ lastOp.op = "chat"
    /\ lastOp.from = a
    /\ Copies(lastOp.sent) = <<copy>>

\* C3: from an address bound to holder H, a dispute menu choice sends the
\* dispute prompt and leaves the dispute pending for that address
\* (DISPUTE_COLLECT); the very next free-text event from that address,
\* whatever its text, creates exactly one case for H with topic dispute and
\* lastMessage that text, sends a confirmation with the new case id, and the
\* conversation is back in MAIN_MENU (nothing pending).
C3_DisputeCollectsNextText ==
    [][\A a \in WaIds, h \in DOMAIN employee :
          (/\ employee[h].phoneE164 = Some(a)
           /\ EventFrom(a)
           /\ lastOp'.fault = NoFault) =>
             /\ lastOp'.text \in {MENU_DISPUTE, TXT_DISPUTAR} =>
                   /\ Copies(lastOp'.sent) = <<"DISPUTE_REQUEST">>
                   /\ disputeAwaitingByPhone'[a] = Some(IdOf(h))
             /\ (AnsweredBefore(a, "DISPUTE_REQUEST") /\ lastOp'.type = "text") =>
                   \E t \in tickets' \ tickets :
                       /\ tickets' = tickets \cup {t}
                       /\ t.employeeId = IdOf(h)
                       /\ t.topic = "DISPUTA"
                       /\ t.lastMessage = Some(lastOp'.text)
                       /\ Copies(lastOp'.sent) = <<"DISPUTE_CONFIRMED">>
                       /\ lastOp'.sent[1].args = <<t.id>>
                       /\ disputeAwaitingByPhone'[a] = Null]_vars

C4_AddressesUnique ==
    \A h, o \in DOMAIN employee :
        (h # o /\ employee[h].phoneE164 # Null) =>
            employee[o].phoneE164 # employee[h].phoneE164
C4_BindingStep ==
    \A h \in DOMAIN employee :
        employee[h].phoneE164 # Null =>
            /\ h \in DOMAIN employee'
            /\ \A o \in DOMAIN employee' \ {h} :
                  employee'[o].phoneE164 # employee[h].phoneE164
            /\ employee'[h].phoneE164 # employee[h].phoneE164 =>
                  /\ lastOp'.op \in {"import", "update"}
                  /\ lastOp'.target = {h}
                  /\ lastOp'.outcome = "updated"
                  /\ employee'[h].phoneE164 = Some(lastOp'.phoneE164)
C6_BindingFollowsOffer ==
    [][\A a \in WaIds, h \in DOMAIN employee :
          (/\ EventFrom(a)
           /\ employee[h].phoneE164 # Some(a)
           /\ employee'[h].phoneE164 = Some(a)) =>
              <<a, IdOf(h)>> \in offered]_vars

\* C7: a handoff menu choice from a bound address creates one case with
\* topic inquiry and status escalated and sends the handoff message; the
\* events that follow from that address are not handled as MAIN_MENU
\* events: no menu, no summary, no further case.
C7_HandoffIsTerminal ==
    [][\A a \in WaIds, h \in DOMAIN employee :
          (employee[h].phoneE164 = Some(a) /\ EventFrom(a)) =>
             /\ (lastOp'.fault = NoFault
                 /\ lastOp'.text \in {MENU_HANDOVER, TXT_HABLAR}
                 /\ ~AnsweredBefore(a, "HANDOVER_MESSAGE")) =>
                   /\ \E t \in tickets' \ tickets :
                         /\ tickets' = tickets \cup {t}
                         /\ t.employeeId = IdOf(h)
                         /\ t.topic = "CONSULTA"
                         /\ t.status = "DERIVADO_RRHH"
                   /\ Copies(lastOp'.sent) = <<"HANDOVER_MESSAGE">>
             /\ AnsweredBefore(a, "HANDOVER_MESSAGE") =>
                   /\ tickets' = tickets
                   /\ \A i \in DOMAIN lastOp'.sent :
                         /\ lastOp'.sent[i].kind # "list"
                         /\ lastOp'.sent[i].copy # "SUMMARY"]_vars

CategoryChoices == {CAT_PANADERIA, TXT_ADELANTO}

Settles(a) ==
    /\ bulk.pc = "running"
    /\ bulk'.pc = "running"
    /\ bulk.results[a].status = "pending"
    /\ bulk'.results[a].status # "pending"

\* C9: in a bulk close, the close of one account failing neither stops nor
\* rolls back the closes of the others: when the bulk close returns, every
\* account has been attempted, each fulfilled one has a statement ending at
\* closingDate (written by its own close) and lastClosingAt = closingDate,
\* and each failing one has the lastClosingAt it had before.
C9_BulkDone ==
    bulk.pc = "done" =>
        \A a \in Accounts :
            /\ bulk.results[a].status \in {"fulfilled", "rejected"}
            /\ bulk.results[a].status = "fulfilled" =>
                  /\ lastClosingAt[a] = Some(bulk.closingDate)
                  /\ \E s \in statements :
                        s.accountId = a /\ s.periodEnd = bulk.closingDate
            /\ bulk.results[a].status = "rejected" =>
                  lastClosingAt[a] = bulk.accounts[a]
C9_BulkStep ==
    \A a \in Accounts :
        Settles(a) =>
            /\ statements \subseteq statements'
            /\ \A s \in statements' \ statements : s.accountId = a
            /\ \A b \in Accounts \ {a} : lastClosingAt'[b] = lastClosingAt[b]
            /\ bulk'.results[a].status = "fulfilled" =>
                  \E s \in statements' \ statements :
                      s.periodEnd = bulk.closingDate
C9_BulkFailureIsolation == []C9_BulkDone /\ [][C9_BulkStep]_vars

\* C9 witness: a bulk close has returned with one account rejected at its
\* statement write and another one closed.
C9_Witness ==
    /\ bulk.pc = "done"
    /\ \E a, b \in Accounts :
          /\ bulk.results[a].status = "rejected"
          /\ bulk.results[a].reason = StoreError("createStatement")
          /\ bulk.results[b].status = "fulfilled"
          /\ lastClosingAt[b] = Some(bulk.closingDate)
          /\ lastClosingAt[a] = Null

\* C10: closeAll does not raise because of per-account failures; it reports
\* a success count and a failure list with successCount + failures = number
\* of accounts, and every failure entry carries the identifier of the account
\* that failed together with the reason.
C10_TallyNamesFailedAccounts ==
    bulk.pc = "done" =>
        /\ bulk.successful + Len(bulk.errors) = Cardinality(Accounts)
        /\ \A a \in Accounts :
              bulk.results[a].status = "rejected" =>
                  \E i \in DOMAIN bulk.errors :
                      /\ "accountId" \in DOMAIN bulk.errors[i]
                      /\ bulk.errors[i].accountId = a
                      /\ bulk.errors[i] = bulk.results[a].reason

\* The step is a close job of account a that settles as outcome.
CloseSettles(a, outcome) ==
    /\ lastOp'.op = "close"
    /\ lastOp'.accountId = a
    /\ lastOp'.outcome = outcome

\* The statements of account a with periodEnd = d in the set S.
EndingAt(S, a, d) == {s \in S : s.accountId = a /\ s.periodEnd = d}

\* C11: each successful closeAccount(account, closingDate) persists exactly
\* one new statement, of that account and with periodEnd = closingDate, and
\* sets account.lastClosingAt = closingDate; it does so again when the
\* account is already closed at that closingDate, so that two closes with
\* the same closingDate leave two statements with periodEnd = closingDate.
C11_CloseAddsOneStatement ==
    [][\A a \in Accounts :
          CloseSettles(a, "fulfilled") =>
              LET d == lastOp'.closingDate
              IN /\ statements \subseteq statements'
                 /\ Cardinality(statements' \ statements) = 1
                 /\ statements' \ statements \subseteq EndingAt(statements', a, d)
                 /\ lastClosingAt'[a] = Some(d)
                 /\ \A b \in Accounts \ {a} : lastClosingAt'[b] = lastClosingAt[b]
                 /\ Cardinality(EndingAt(statements', a, d)) =
                        Cardinality(EndingAt(statements, a, d)) + 1]_vars

\* C11 witness: the same account was closed twice at the same closingDate
\* and has two statements ending at it.
C11_Witness ==
    /\ lastOp.op = "close"
    /\ lastOp.outcome = "fulfilled"
    /\ lastClosingAt[lastOp.accountId] = Some(lastOp.closingDate)
    /\ Cardinality(EndingAt(statements, lastOp.accountId,
                            lastOp.closingDate)) = 2

\* C19: when notifications are requested and sending the closing
\* notification fails, the close still settles as successful, with its
\* statement persisted and account.lastClosingAt = closingDate; a
\* notification is attempted only by a close that has written the statement
\* and lastClosingAt, and never when notifications are not requested.
C19_NotificationIsBestEffort ==
    [][lastOp'.op = "close" =>
          LET a == lastOp'.accountId
              d == lastOp'.closingDate
              closed == /\ statements' \ statements # {}
                        /\ statements' \ statements
                              \subseteq EndingAt(statements', a, d)
                        /\ lastClosingAt'[a] = Some(d)
          IN /\ (lastOp'.sent # <<>> /\ ~lastOp'.delivered) =>
                    lastOp'.outcome = "fulfilled" /\ closed
             /\ lastOp'.sent # <<>> =>
                    /\ lastOp'.sendNotifications
                    /\ closed
                    /\ Len(lastOp'.sent) = 1
                    /\ lastOp'.sent[1].to = employee[a].phoneE164
             /\ ~lastOp'.sendNotifications => lastOp'.sent = <<>>
             /\ lastOp'.outcome = "rejected" => lastOp'.sent = <<>>]_vars

\* C19 witness: a close asked to notify was not able to deliver the
\* notification and is successful.
C19_Witness ==
    /\ lastOp.op = "close"
    /\ lastOp.sendNotifications
    /\ lastOp.sent # <<>>
    /\ ~lastOp.delivered
    /\ lastOp.outcome = "fulfilled"
    /\ lastClosingAt[lastOp.accountId] = Some(lastOp.closingDate)
    /\ EndingAt(statements, lastOp.accountId, lastOp.closingDate) # {}

\* C20: the statement written by closeAccount(account, closingDate) has
\* periodEnd = closingDate and periodStart = account.lastClosingAt when a
\* previous close exists, otherwise the first day of the current calendar
\* month; for an account never closed whose transactions were all posted in
\* the first month, closing with closingDate = the last day of that month
\* gives periodStart = the first day of that month and a closing balance
\* equal to the sum of those transactions.
C20_StatementPeriod ==
    [][\A a \in Accounts :
          CloseSettles(a, "fulfilled") =>
              \A s \in statements' \ statements :
                  /\ s.periodEnd = lastOp'.closingDate
                  /\ s.periodStart =
                        IF lastClosingAt[a] # Null THEN ValueOf(lastClosingAt[a])
                        ELSE FirstDayOfMonth(now)
                  /\ (/\ lastClosingAt[a] = Null
                      /\ \A t \in transactions :
                            t.accountId = a => t.postedAt \in 0..(MonthLen - 1)
                      /\ lastOp'.closingDate = MonthLen - 1) =>
                        /\ s.periodStart = 0
                        /\ s.closingBalanceCents =
                              SumAmounts({t \in transactions :
                                            t.accountId = a})]_vars

\* C12: if a store operation fails while an inbound event is being handled
\* (identity lookup, bind update, case creation, account or transaction
\* read), the sender receives the generic error message and the
\* conversation does not advance: no binding is written, no case is
\* created, the pending-dispute entries are what they were, and the address
\* resolves to the state it resolved to before.
C12_StoreFailureLeavesState ==
    [][(lastOp'.op = "chat" /\ lastOp'.fault # NoFault) =>
          /\ \E i \in DOMAIN lastOp'.sent :
                lastOp'.sent[i] = sendText(lastOp'.from, "ERROR_GENERAL", <<>>)
          /\ \A i \in DOMAIN lastOp'.sent : lastOp'.sent[i].to = lastOp'.from
          /\ employee' = employee
          /\ tickets' = tickets
          /\ disputeAwaitingByPhone' = disputeAwaitingByPhone
          /\ offered' = offered
          /\ \A a \in WaIds :
                getOrCreateConversationState(a)' =
                    getOrCreateConversationState(a)]_vars

\* C12 witness: the bind update of a confirm-yes failed; the sender got the
\* generic error and is still bound to nobody.
C12_Witness ==
    /\ lastOp.op = "chat"
    /\ lastOp.fault = "updateEmployee"
    /\ Copies(lastOp.sent) = <<"ERROR_GENERAL">>
    /\ findByPhone(lastOp.from) = {}

\* C13: two inbound events from the same address are never handled
\* concurrently: while the handler of one is running, no handler of another
\* event from that address runs, also when the two events arrive in
\* separate webhook requests.
C13_SameAddressSerialized ==
    \A r1, r2 \in Requests :
        (r1 # r2 /\ Handling(inFlight[r1]) /\ Handling(inFlight[r2])) =>
            Current(inFlight[r1]).from # Current(inFlight[r2]).from

\* The events handled to their end by the requests on record.
Handled ==
    UNION {{inFlight[r].results[k] : k \in DOMAIN inFlight[r].results} :
              r \in Requests}

\* The event was a confirm-yes for employee h answered with the
\* confirmation of identity.
ConfirmedFor(ev, h) ==
    /\ ev.state = "NEW_OR_UNIDENTIFIED"
    /\ ev.text = CONFIRM_YES_PREFIX \o IdOf(h)
    /\ Len(ev.sent) >= 1
    /\ ev.sent[1].copy = "IDENTITY_CONFIRMED"

\* C14: when two different unbound addresses A and B send confirm-yes for
\* the same unbound holder H, in every interleaving at most one of them is
\* told that identity is confirmed, and H's address is the address that was
\* confirmed.
C14_OneWinnerOfDoubleBind ==
    \A h \in DOMAIN employee :
        \A ea \in Handled :
            ConfirmedFor(ea, h) =>
                /\ employee[h].phoneE164 = Some(ea.from)
                /\ \A eb \in Handled :
                      (/\ eb.from # ea.from
                       /\ eb.text = ea.text
                       /\ eb.state = "NEW_OR_UNIDENTIFIED") =>
                          Copies(eb.sent) = <<"ERROR_ALREADY_LINKED">>

\* The step is made by the handler of an event from address a.
StepOfEventFrom(a) ==
    \E r \in Requests :
        /\ inFlight[r].pc = "processMessage"
        /\ inFlight'[r] # inFlight[r]
        /\ Current(inFlight[r]).from = a

\* C15: pending-dispute data is kept per address: the entry of an address
\* is set or cleared only by the handler of an event from that address, which
\* leaves the entry of every other address as it is, and a dispute started
\* from A is stored under A with the holder id A resolved to, in any
\* interleaving of events from A and B.
C15_PendingDisputePerAddress ==
    [][\A a \in WaIds :
          disputeAwaitingByPhone'[a] # disputeAwaitingByPhone[a] =>
              /\ StepOfEventFrom(a)
              /\ \A b \in WaIds \ {a} :
                    disputeAwaitingByPhone'[b] = disputeAwaitingByPhone[b]
              /\ \E r \in Requests :
                    /\ inFlight[r].pc = "processMessage"
                    /\ Current(inFlight[r]).from = a
                    /\ disputeAwaitingByPhone'[a] =
                          ValueOf(inFlight[r].state).data]_vars

\* C15 witness: two addresses have a dispute pending, each with its own
\* holder.
C15_Witness ==
    \E a, b \in WaIds :
        /\ a # b
        /\ disputeAwaitingByPhone[a] # Null
        /\ disputeAwaitingByPhone[b] # Null
        /\ disputeAwaitingByPhone[a] # disputeAwaitingByPhone[b]
        /\ \E h \in DOMAIN employee :
              /\ employee[h].phoneE164 = Some(a)
              /\ disputeAwaitingByPhone[a] = Some(IdOf(h))

\* The step in which the handler of request r gets the state of its sender.
Resolves(r) ==
    /\ inFlight[r].pc = "getState"
    /\ inFlight'[r].pc = "processMessage"

\* C16: the state in which an inbound event is dispatched is derived from
\* the store alone: it is MAIN_MENU with holder H exactly when the sender
\* address is bound to H at that moment, and the identification state
\* otherwise; resolving changes nothing in the store, and an address
\* resolves to the same outcome as long as no binding is written.
C16_StateDerivedFromStore ==
    [][/\ \A r \in Requests :
             Resolves(r) =>
                 LET a == Current(inFlight[r]).from
                     st == ValueOf(inFlight'[r].state)
                 IN /\ employee' = employee
                    /\ tickets' = tickets
                    /\ disputeAwaitingByPhone' = disputeAwaitingByPhone
                    /\ transactions' = transactions
                    /\ statements' = statements
                    /\ \A h \in DOMAIN employee :
                          employee[h].phoneE164 = Some(a) <=>
                              (st.state = "MAIN_MENU" /\ st.data = Some(IdOf(h)))
                    /\ (\A h \in DOMAIN employee :
                            employee[h].phoneE164 # Some(a)) <=>
                              (st.state = "NEW_OR_UNIDENTIFIED" /\ st.data = Null)
       /\ employee' = employee =>
             \A a \in WaIds :
                 getOrCreateConversationState(a)' =
                     getOrCreateConversationState(a)]_vars

\* C16 witness: two requests are about to process an event each, one of a
\* bound sender resolved to the main menu and one of an unbound sender.
C16_Witness ==
    \E r1, r2 \in Requests :
        /\ inFlight[r1].pc = "processMessage"
        /\ inFlight[r2].pc = "processMessage"
        /\ ValueOf(inFlight[r1].state).state = "MAIN_MENU"
        /\ \E h \in DOMAIN employee :
              /\ employee[h].phoneE164 = Some(Current(inFlight[r1]).from)
              /\ ValueOf(inFlight[r1].state).data = Some(IdOf(h))
        /\ ValueOf(inFlight[r2].state).state = "NEW_OR_UNIDENTIFIED"
        /\ disputeAwaitingByPhone[Current(inFlight[r1]).from] # Null

\* The text, trimmed, is a run of 7 or 8 decimal digits.
SevenOrEightDigits(t) ==
    /\ Len(trim(t)) \in {7, 8}
    /\ \A i \in DOMAIN trim(t) :
          trim(t)[i] \in {"0", "1", "2", "3", "4", "5", "6", "7", "8", "9"}

\* The step handles an event in the identification state.
InIdentify == lastOp'.op = "chat" /\ lastOp'.state = "NEW_OR_UNIDENTIFIED"

\* A failure of the holder lookups has nothing to hit for a free text of an
\* unbound address that is not 7 to 8 digits: the lookup is not reached.
NoLookupForInvalidText ==
    \A a \in WaIds, t \in FreeTexts :
        (getOrCreateConversationState(a).state = "NEW_OR_UNIDENTIFIED"
           /\ ~SevenOrEightDigits(t)) =>
            \A f \in {"findEmployeeByDni", "findEmployeeById", "updateEmployee"} :
                /\ handleMessage(a, t, "text", f).fault = NoFault
                /\ Copies(handleMessage(a, t, "text", f).sent) =
                      <<"ERROR_INVALID_DNI">>

\* C17: in IDENTIFY, no event other than a confirm-yes writes a binding:
\* free text that is not 7 to 8 digits (after trimming) is answered with the
\* invalid-ID error without any holder lookup, a confirm-no is answered with
\* the not-you message, and in both cases no binding is written and the
\* address is still in IDENTIFY when its next event arrives.
C17_IdentifyStep ==
    InIdentify =>
        LET a == lastOp'.from
            stays == /\ employee' = employee
                     /\ \A b \in WaIds :
                           lastOp'.from = b =>
                               getOrCreateConversationState(b)'.state =
                                   "NEW_OR_UNIDENTIFIED"
        IN /\ ~(lastOp'.type = "interactive"
                  /\ startsWith(lastOp'.text, CONFIRM_YES_PREFIX)) =>
                 employee' = employee
           /\ (lastOp'.type = "text" /\ ~SevenOrEightDigits(lastOp'.text)) =>
                 /\ lastOp'.sent = <<sendText(a, "ERROR_INVALID_DNI", <<>>)>>
                 /\ offered' = offered
                 /\ stays
           /\ (lastOp'.type = "interactive" /\ lastOp'.text = CONFIRM_NO) =>
                 /\ lastOp'.sent = <<sendText(a, "IDENTITY_DENIED", <<>>)>>
                 /\ stays
C17_OnlyConfirmYesBinds == []NoLookupForInvalidText /\ [][C17_IdentifyStep]_vars

\* C17 witness: an unbound address sent a text of six digits, was told the
\* ID is invalid and is still unbound.
C17_Witness ==
    /\ lastOp.op = "chat"
    /\ lastOp.state = "NEW_OR_UNIDENTIFIED"
    /\ lastOp.text = TXT_DNI_SHORT
    /\ Copies(lastOp.sent) = <<"ERROR_INVALID_DNI">>
    /\ findByPhone(lastOp.from) = {}
    /\ \E h \in DOMAIN employee : employee[h].phoneE164 = Null

\* C18: once holder H is bound to address A, a bind attempt coming from A
\* that names a different holder fails with the AlreadyLinked outcome and
\* changes no binding, and a bind attempt from A that names H again succeeds
\* (no error is sent) and changes nothing.
C18_BindFromBoundAddress ==
    [][\A a \in WaIds, h \in DOMAIN employee, o \in DOMAIN employee :
          (/\ employee[h].phoneE164 = Some(a)
           /\ EventFrom(a)
           /\ lastOp'.fault = NoFault
           /\ lastOp'.type = "interactive"
           /\ lastOp'.text = CONFIRM_YES_PREFIX \o IdOf(o)) =>
              /\ employee' = employee
              /\ o # h => Copies(lastOp'.sent) = <<"ERROR_ALREADY_LINKED">>
              /\ o = h => Copies(lastOp'.sent) \in
                            {<<"IDENTITY_CONFIRMED", "MAIN_MENU_BODY">>,
                             <<"MAIN_MENU_BODY">>}]_vars

\* The sum of the amounts of the rows in S, amount by amount: each amount
\* times the number of rows that carry it.
RECURSIVE Weighted(_, _)
Weighted(S, amounts) ==
    IF amounts = {} THEN 0
    ELSE LET c == CHOOSE x \in amounts : TRUE
         IN c * Cardinality({t \in S : t.amountCents = c})
              + Weighted(S, amounts \ {c})

\* C21: computeBalance(account, asOfDate) is exactly the integer sum of
\* amountCents of that account's transactions with postedAt <= asOfDate (of
\* all its transactions when asOfDate is omitted), never counting another
\* account's transactions; it is 0 for an account with no transactions and
\* when asOfDate precedes every transaction.
C21_BalanceIsSumThroughDate ==
    \A a \in Accounts :
        LET own == {t \in transactions : t.accountId = a}
        IN /\ computeBalance(a, Null) = Weighted(own, Amounts)
           /\ own = {} => computeBalance(a, Null) = 0
           /\ \A d \in Times :
                 /\ computeBalance(a, Some(d)) =
                       Weighted({t \in own : t.postedAt <= d}, Amounts)
                 /\ (\A t \in own : d < t.postedAt) =>
                       computeBalance(a, Some(d)) = 0

\* C21 witness: an account has a transaction posted on a day and one posted
\* later, and its balance through that day is the earlier amount alone.
C21_Witness ==
    \E t1, t2 \in transactions :
        /\ t1.accountId = t2.accountId
        /\ t1.postedAt < t2.postedAt
        /\ computeBalance(t1.accountId, Some(t1.postedAt)) = t1.amountCents
        /\ computeBalance(t1.accountId, Null) = t1.amountCents + t2.amountCents

C23_HolderCreatedWithAccount ==
    /\ \A h \in DOMAIN employee :
          /\ Cardinality({r \in account : r.employeeId = IdOf(h)}) = 1
          /\ \A r \in account : r.employeeId = IdOf(h) => r.closingDay = 20
    /\ \A r \in account : \E h \in DOMAIN employee : r.employeeId = IdOf(h)


\* The place of a status on the way of a case.
StatusRank(status) ==
    CASE status = "ABIERTO" -> 1
      [] status = "DERIVADO_RRHH" -> 2
      [] status = "CERRADO" -> 3

\* C24: the status of a case only moves forward along open, escalated to
\* staff, closed: no call of handoverToHR, closeTicket or updateTicket
\* moves a closed case back to escalated or open, or an escalated case back
\* to open.
C24_StatusOnlyMovesForward ==
    [][\A t \in tickets : \A u \in tickets' :
          u.id = t.id => StatusRank(t.status) <= StatusRank(u.status)]_vars

\* The line of the file has been through the loop body of a batch run: it
\* was skipped for a missing field, or its store calls are over.
RowSettled(job, line) ==
    \/ job.done[line] >= 1
    \/ \E i \in DOMAIN job.result.errors :
          job.result.errors[i] = <<line, "missing">>

\* C25: a bulk import never aborts because of a bad row; each malformed or
\* failing row is recorded in errors, and at the moment process returns its
\* result every row read from the file has been fully processed and
\* totalRows = successfulRows + failedRows, also with more rows than
\* batchSize.
C25_ImportReturnsCompleteTally ==
    [][(importJob.returned = Null /\ importJob'.returned # Null) =>
          LET result == ValueOf(importJob'.returned)
          IN /\ result.totalRows = Len(importJob'.file)
             /\ result.failedRows = Len(result.errors)
             /\ importJob'.runs = EmptyBag
             /\ \A line \in DOMAIN importJob'.file :
                   RowSettled(importJob', line)
             /\ result.totalRows = result.successfulRows + result.failedRows]_vars

\* The posting a transaction row stands for, as the store holds it.
PostingOf(row) ==
    LET found == getEmployeeByCode(row.employeeCode)
    IN {t \in transactions :
          /\ \E h \in found : t.accountId = h
          /\ t.amountCents = amountCentsOf(row.amountARS)
          /\ t.postedAt = DigitsValue(row.postedAt)
          /\ t.type = row.type}

\* C26: import is an upsert.  A holder row never makes a second holder or
\* account for its code, and a transaction row whose holder code and
\* posting were in the store when the import began creates no second
\* transaction, so importing the same file again adds nothing.
C26_ImportIsUpsert ==
    [][/\ \A r \in account' :
             Cardinality({o \in account' : o.employeeId = r.employeeId}) = 1
       /\ \A line \in DOMAIN importJob.file :
             (/\ importJob.fileType = "transactions"
              /\ importJob'.imports = importJob.imports
              /\ importJob'.done[line] > importJob.done[line]
              /\ PostingOf(importJob.file[line]) \cap importJob.storeAtStart # {})
             => transactions' = transactions]_vars

\* C27: GET /webhook/whatsapp answers 200 with the hub.challenge value
\* exactly when hub.mode is 'subscribe' and hub.verify_token equals the
\* configured VERIFY_TOKEN; with any other mode or token it answers 403 and
\* does not echo the challenge.
C27_VerificationAnswer ==
    lastOp.op = "verify" =>
        IF lastOp.mode = Some("subscribe") /\ lastOp.token = Some(VERIFY_TOKEN)
        THEN lastOp.status = 200 /\ lastOp.body = lastOp.challenge
        ELSE /\ lastOp.status = 403
             /\ lastOp.body = Some("Forbidden")
             /\ lastOp.body # lastOp.challenge

\* A subscription with the configured token got its challenge back.
C27_Witness ==
    /\ lastOp.op = "verify"
    /\ lastOp.token = Some(VERIFY_TOKEN)
    /\ lastOp.status = 200
    /\ lastOp.body = Some("test-challenge")

\* The answer of a POST that is over, and the order of the work of one that
\* is not.
PostAnswered(req) ==
    /\ req.pc = "handling" => Len(req.results) = req.i - 1
    /\ req.pc = "done" =>
          IF req.object # WHATSAPP_BUSINESS_ACCOUNT
          THEN req.status = 400 /\ req.results = <<>>
          ELSE /\ req.status = 200
               /\ req.body = "OK"
               /\ Len(req.results) = Len(req.messages)
               /\ \A i \in DOMAIN req.messages :
                     /\ req.results[i].from = req.messages[i].from
                     /\ req.results[i].type = req.messages[i].type
                     /\ req.results[i].text = messageTextOf(req.messages[i])

\* C28: POST /webhook/whatsapp answers 400 and handles no message when
\* body.object is not 'whatsapp_business_account'; otherwise it answers 200
\* 'OK' for text messages, interactive messages and empty message lists
\* alike, and also when handling one of the messages fails, after handling
\* the messages of the request one at a time in array order, a failed
\* message not preventing the later ones.
C28_PostAnswer ==
    /\ [](\A r \in Requests : PostAnswered(inFlight[r]))
    /\ [][\A r \in Requests :
            (/\ inFlight'[r] # inFlight[r]
             /\ inFlight'[r].pc = "done"
             /\ inFlight'[r].status = 400)
            => UNCHANGED <<employee, tickets, disputeAwaitingByPhone,
                           offered>>]_vars

\* A request of two messages was answered 200 although a store call failed
\* under the first; the second got its reply.
C28_Witness ==
    LET req == inFlight[1]
    IN /\ req.pc = "done"
       /\ req.object = WHATSAPP_BUSINESS_ACCOUNT
       /\ req.status = 200
       /\ Len(req.results) = 2
       /\ req.results[1].fault # NoFault
       /\ req.results[2].fault = NoFault
       /\ req.results[2].sent # <<>>

\* C29: every choice-button message the conversation flow sends has at most
\* 3 choices, so every choice the flow offers reaches the user: no category
\* or confirm button is cut off by the 3-button limit of the transport.
C29_ChoicesWithinLimit ==
    lastOp.op = "chat" =>
        \A i \in DOMAIN lastOp.sent :
            lastOp.sent[i].kind = "buttons" =>
                /\ Len(lastOp.sent[i].ids) <= MAX_BUTTONS
                /\ sanitizeButtons(lastOp.sent[i].ids) = lastOp.sent[i].ids

\* C30: a single-account close job raises to the queue exactly when the
\* attempt did not set account.lastClosingAt = closingDate: an attempt that
\* fails at the account lookup, the statement write, the document
\* generation or the lastClosingAt write raises and leaves lastClosingAt as
\* it was, and an attempt that completes the lastClosingAt write does not
\* raise.
C30_RaisesIffNotClosed ==
    [][lastOp'.op = "close" =>
          LET a == lastOp'.accountId
          IN /\ lastOp'.outcome \in {"rejected", "fulfilled"}
             /\ lastOp'.outcome = "rejected" =>
                   lastClosingAt'[a] = lastClosingAt[a]
             /\ lastOp'.outcome = "fulfilled" =>
                   lastClosingAt'[a] = Some(lastOp'.closingDate)]_vars

\* An attempt was rejected after the statement write: the statement is
\* there and the account has never been closed.
C30_Witness ==
    /\ lastOp.op = "close"
    /\ lastOp.outcome = "rejected"
    /\ lastClosingAt[lastOp.accountId] = Null
    /\ \E s \in statements : s.accountId = lastOp.accountId

\* C31: every pending-dispute entry created by a dispute menu choice is
\* removed once the dispute flow of the address has completed: after the
\* next free text of the address was received and answered, the address has
\* no pending entry.
C31_PendingEntryRemoved ==
    [][(/\ lastOp'.op = "chat"
        /\ lastOp'.type = "text"
        /\ lastOp'.fault = NoFault
        /\ disputeAwaitingByPhone[lastOp'.from] # Null)
       => disputeAwaitingByPhone'[lastOp'.from] = Null]_vars

\* C32: a closeAccount attempt that fails leaves the account as it was
\* before the attempt: no statement written by that attempt remains and
\* lastClosingAt is unchanged, so under retries the statements of an
\* account are as many as its successful closes.
C32_FailedCloseLeavesNothing ==
    [][(lastOp'.op = "close" /\ lastOp'.outcome = "rejected") =>
          /\ statements' = statements
          /\ lastClosingAt' = lastClosingAt]_vars

C34_StatementPeriodOrdered ==
    \A s \in statements : s.periodStart <= s.periodEnd

\* C35: across any sequence of closeAccount calls on one account,
\* lastClosingAt never decreases: a close whose closingDate is earlier than
\* the current lastClosingAt does not move lastClosingAt backwards.
C35_LastClosingNeverDecreases ==
    [][\A a \in Accounts :
          lastClosingAt[a] # Null =>
              /\ lastClosingAt'[a] # Null
              /\ ValueOf(lastClosingAt'[a]) >= ValueOf(lastClosingAt[a])]_vars

\* The copies that carry balance, statement or transaction data.
DataCopies == {"SUMMARY", "CATEGORY_DETAIL_TOTAL", "CATEGORY_DETAIL_HEADER"}

\* C36: an inbound event from an address that is not bound to any holder
\* creates no case and is answered with no balance, statement or transaction
\* data; and every case created from chat belongs to the holder that was
\* bound to the sending address when the event was handled.
C36_UnboundAddressGetsNothing ==
    [][lastOp'.op = "chat" =>
          LET bound == findByPhone(lastOp'.from)
          IN /\ bound = {} =>
                   /\ tickets' = tickets
                   /\ \A i \in DOMAIN lastOp'.sent :
                         lastOp'.sent[i].copy \notin DataCopies
             /\ \A t \in tickets' \ tickets :
                   \E h \in bound : t.employeeId = IdOf(h)]_vars

\* An address bound to no holder has asked for a person while the case of a
\* bound address exists, and no case was added for it.
C36_Witness ==
    /\ lastOp.op = "chat"
    /\ lastOp.text = MENU_HANDOVER
    /\ lastOp.fault = NoFault
    /\ findByPhone(lastOp.from) = {}
    /\ Cardinality(tickets) = 1
    /\ \A i \in DOMAIN lastOp.sent : lastOp.sent[i].copy \notin DataCopies

\* The sum of the entries of a mapping over the keys in keys.
RECURSIVE SumOfTotals(_, _)
SumOfTotals(totals, keys) ==
    IF keys = {} THEN 0
    ELSE LET c == CHOOSE x \in keys : TRUE
         IN totals[c] + SumOfTotals(totals, keys \ {c})

\* C37: in the result of a getPeriodData call the category totals partition
\* the period: the sum of categoryTotals over all categories equals the sum of
\* amountCents of the account's transactions in [start, end] and equals
\* closingBalance minus openingBalance; each entry is the sum of its
\* category; a category with no transaction in the period has no entry, and
\* a period without transactions has an empty mapping.
C37_CategoryTotalsPartition ==
    [][(transactions' = transactions /\ periodQuery' # Null) =>
        LET q == ValueOf(periodQuery')
            d == q.data
            inPeriod == {t \in transactions :
                            /\ t.accountId = q.accountId
                            /\ d.start <= t.postedAt
                            /\ t.postedAt <= d.end}
            sum == SumOfTotals(d.categoryTotals, DOMAIN d.categoryTotals)
        IN /\ sum = Weighted(inPeriod, Amounts)
           /\ sum = d.closingBalance - d.openingBalance
           /\ \A c \in TransactionType :
                 IF \E t \in inPeriod : t.type = c
                 THEN /\ c \in DOMAIN d.categoryTotals
                      /\ d.categoryTotals[c] =
                            Weighted({t \in inPeriod : t.type = c}, Amounts)
                 ELSE c \notin DOMAIN d.categoryTotals
           /\ inPeriod = {} => DOMAIN d.categoryTotals = {}]_vars

\* A period with transactions of one category only, queried on an account
\* that has a transaction of the other category outside the period.
C37_Witness ==
    /\ periodQuery # Null
    /\ DOMAIN ValueOf(periodQuery).data.categoryTotals = {"PANADERIA"}
    /\ \E t \in transactions :
          /\ t.accountId = ValueOf(periodQuery).accountId
          /\ t.type = "ADELANTO"
          /\ t.postedAt > ValueOf(periodQuery).data.end

\* The category a choice of the main menu names: the reply id of the
\* category buttons, or a text with the category's keyword.
ChosenCategory(text) ==
    IF text = CAT_PANADERIA THEN "PANADERIA"
    ELSE IF text = TXT_ADELANTO THEN "ADELANTO"
    ELSE "none"

\* C38: a category choice in MAIN_MENU renders transactions of that category
\* of the sender's holder together with a total equal to the sum of all of
\* that holder's transactions in that category (0 when there are none),
\* never including a transaction of another holder or of another category,
\* and the conversation is back in MAIN_MENU: the menu follows the detail and
\* the binding is untouched.
C38_CategoryDetailOfHolder ==
    [][(/\ lastOp'.op = "chat"
        /\ lastOp'.state = "MAIN_MENU"
        /\ lastOp'.fault = NoFault
        /\ ChosenCategory(lastOp'.text) # "none") =>
          LET h == CHOOSE x \in findByPhone(lastOp'.from) : TRUE
              all == {t \in transactions :
                         /\ t.accountId = h
                         /\ t.type = ChosenCategory(lastOp'.text)}
              detail == lastOp'.sent[1]
          IN /\ Len(lastOp'.sent) = 2
             /\ detail.kind = "text"
             /\ detail.to = lastOp'.from
             /\ IF all = {}
                THEN /\ detail.copy = "CATEGORY_DETAIL_TOTAL"
                     /\ detail.args = <<0>>
                ELSE /\ detail.copy = "CATEGORY_DETAIL_HEADER"
                     /\ detail.args[2] \subseteq all
                     /\ detail.args[1] = SumAmounts(all)
             /\ lastOp'.sent[2].copy = "MAIN_MENU_BODY"
             /\ employee' = employee]_vars

\* C39: during one import each CSV row is applied to the store at most once:
\* no row is processed by two batch runs, so successfulRows + failedRows
\* never exceeds totalRows, whatever the interleaving of the row events and
\* the batch runs.
C39_RowAppliedOnce ==
    /\ \A line \in DOMAIN importJob.done : importJob.done[line] <= 1
    /\ importJob.result.successfulRows + importJob.result.failedRows
          <= importJob.result.totalRows

====
